---- MODULE Spec2Model ----
(***************************************************************************)
(* Decision pipeline of the smart pesticide sprinkler server (src/main.py):*)
(* the frame-processing loop with its temporal stabilizer and local        *)
(* auto-trigger, the spray threads it spawns, and the Flask handlers       *)
(* /process, /dht22 and /force_spray, each running in a thread of its own  *)
(* (app.run(..., threaded=True)).                                          *)
(*                                                                         *)
(* Granularity.  The handlers share module-level globals without any lock. *)
(* Every read or write of a global that another thread also accesses is a  *)
(* step of its own; computation on locals is folded into the step that     *)
(* precedes it.  Each thread's position is a "pc" naming the source line   *)
(* it executes next.                                                       *)
(*                                                                         *)
(* Data.  A Python string is modelled as the sequence of its space-        *)
(* separated words (what str.split(" ") returns).  Percentages and degrees *)
(* are integers.  The smoothed confidence is an exact fraction num/den.    *)
(* Wall-clock time is not modelled: the timed wait of a spray thread ends  *)
(* in a step of its own, and log entries carry no timestamp.               *)
(***************************************************************************)
EXTENDS Integers, Sequences, FiniteSets, TLC

(***************************************************************************)
(* Program constants                                                       *)
(***************************************************************************)
MIN_CONFIDENCE == 35
MOISTURE_LIMIT == 40
HUMIDITY_LIMIT == 70
TEMP_LIMIT == 30
HISTORY_SIZE == 20
\* A hysteresis limit one evaluation longer
HYSTERESIS_Longer == 5 + 1
HYSTERESIS == 5
LOG_SIZE == 50
QUEUE_SIZE == 1
FORCE_DURATION == 3

\* SMOOTHING_ALPHA = 0.1 as the fraction AlphaNum / AlphaDen
AlphaNum == 1
AlphaDen == 10

\* Python's None; a present reading x is the one-element sequence <<x>>
None == <<>>
Some(x) == <<x>>

spray_durations == [low |-> 2, medium |-> 3, high |-> 5]

severity_classes == {"healthy", "high", "low", "medium"}

\* The string "No Plant Detected"
NoPlantDetected == <<"No", "Plant", "Detected">>

(***************************************************************************)
(* Bounds of the model                                                     *)
(***************************************************************************)
MaxFrames == 2      \* frames the capture loop delivers (SpecLocal)
FullFrames == 1     \* frames the capture loop delivers (Spec)
MaxPolls == 2       \* /process requests
MaxDht == 2         \* /dht22 requests
MaxForce == 1       \* /force_spray requests
NumPollers == 2     \* /process handler threads that may run at once
NumSprayers == 2    \* spray threads that may exist at once
NumStreams == 2     \* consumers of /video_feed
StabFrames == 6     \* frames the capture loop delivers (SpecStabilizer)

Pollers == 1..NumPollers
Sprayers == 1..NumSprayers
Streams == 1..NumStreams

\* Outcomes of the two classifiers for one frame: the binary model says
\* "no plant", or the severity model gives a class and a confidence.
Confidences == {60, 80, 90}
Classifications ==
    { [plant |-> FALSE, class |-> "healthy", confidence |-> 0] } \cup
    { [plant |-> TRUE, class |-> "healthy", confidence |-> 80],
      [plant |-> TRUE, class |-> "low", confidence |-> 60],
      [plant |-> TRUE, class |-> "high", confidence |-> 90] }

\* Outcomes of the classifiers in the stabilizer's specification: the same
\* severity at two confidences above MIN_CONFIDENCE (two different label
\* strings), and a severity at a confidence below it
StabClassifications ==
    { [plant |-> FALSE, class |-> "healthy", confidence |-> 0],
      [plant |-> TRUE, class |-> "high", confidence |-> 90],
      [plant |-> TRUE, class |-> "high", confidence |-> 36],
      [plant |-> TRUE, class |-> "low", confidence |-> 20] }

\* Bodies of the requests the model sends
MoistureBodies == {Some(35), Some(45), None}     \* None: no "moisture" field
\* /dht22 bodies the shipped sensor client posts: it reports only when both
\* readings are present
ClientDhtBodies == { [temperature |-> Some(22), humidity |-> Some(50)],
                     [temperature |-> Some(22), humidity |-> Some(75)] }
\* /dht22 bodies the handler accepts: data.get() of a missing field is None
DhtBodies == ClientDhtBodies \cup
             { [temperature |-> Some(22), humidity |-> None] }

(***************************************************************************)
(* Pure helpers                                                            *)
(***************************************************************************)
\* f"{confidence:.1f}%" in parentheses, for the confidences of the model
FormatConfidence(c) ==
    CASE c = 20 -> "(20.0%)"
      [] c = 36 -> "(36.0%)"
      [] c = 60 -> "(60.0%)"
      [] c = 80 -> "(80.0%)"
      [] c = 90 -> "(90.0%)"
      [] OTHER -> "(0.0%)"

\* label = f"{severity_classes[class_idx]} ({confidence:.1f}%)"
PredictionLabel(cl) ==
    IF cl.plant THEN <<cl.class, FormatConfidence(cl.confidence)>>
    ELSE NoPlantDetected

\* The (label, confidence) pair appended to prediction_history
HistoryEntry(cl) ==
    [label |-> PredictionLabel(cl),
     conf |-> IF cl.plant THEN cl.confidence ELSE 0]

\* s.split(" ")[0], as a one-word string
FirstWord(s) == <<s[1]>>

\* key in spray_durations, for a string key
InSprayDurations(s) == Len(s) = 1 /\ s[1] \in DOMAIN spray_durations

\* A deque created without maxlen
DequeAppend_Unbounded(q, x, n) == Append(q, x)

\* A bounded buffer that refuses a new item when full
DequeAppend_KeepsOldest(q, x, n) ==
    IF Len(q) < n THEN Append(q, x) ELSE q

\* A buffer that puts a new item in front and drops the last one when full
DequeAppend_AtFront(q, x, n) ==
    IF Len(q) < n THEN <<x>> \o q ELSE <<x>> \o SubSeq(q, 1, n - 1)

\* deque(maxlen=n).append(x)
DequeAppend(q, x, n) ==
    IF Len(q) < n THEN Append(q, x) ELSE Append(Tail(q), x)

RECURSIVE Pow(_, _)
Pow(b, k) == IF k = 0 THEN 1 ELSE b * Pow(b, k - 1)

\* Numerator of the exponential moving average over the first n entries of
\* h, over the denominator AlphaDen^(n-1):
\*   smoothed = conf                                     (i = 0)
\*   smoothed = ALPHA * conf + (1 - ALPHA) * smoothed    (i > 0)
RECURSIVE SmoothedNum(_, _)
SmoothedNum(h, n) ==
    IF n = 1 THEN h[1].conf
    ELSE AlphaNum * h[n].conf * Pow(AlphaDen, n - 2)
         + (AlphaDen - AlphaNum) * SmoothedNum(h, n - 1)

SmoothedDen(h) == Pow(AlphaDen, Len(h) - 1)

\* valid_labels.count(lbl)
CountLabel(h, lbl) == Cardinality({i \in 1..Len(h) : h[i].label = lbl})

\* most_common without the fallback of lines 162-163 to No Plant Detected
MostCommon_FallbackUnknown(h) ==
    LET valid == {h[i].label : i \in {j \in 1..Len(h) : h[j].label # NoPlantDetected}}
    IN IF valid = {} THEN {<<"Unknown">>}
       ELSE {l \in valid : \A m \in valid : CountLabel(h, l) >= CountLabel(h, m)}

\* The values max(set(valid_labels), key=valid_labels.count) can return:
\* max keeps the first maximal element in the set's iteration order, which
\* for strings depends on the process's hash seed.
MostCommon(h) ==
    LET valid == {h[i].label : i \in {j \in 1..Len(h) : h[j].label # NoPlantDetected}}
    IN IF valid = {} THEN {NoPlantDetected}
       ELSE {l \in valid : \A m \in valid : CountLabel(h, l) >= CountLabel(h, m)}

\* get_stable_prediction without the reset of line 176
get_stable_prediction_NoReset(h, visible, without) ==
    IF Len(h) = 0
    THEN { [label |-> NoPlantDetected, color |-> "red", num |-> 0, den |-> 1,
            visible |-> visible, without |-> without] }
    ELSE LET num == SmoothedNum(h, Len(h))
             den == SmoothedDen(h)
         IN IF num >= MIN_CONFIDENCE * den
            THEN { [label |-> l, color |-> "green", num |-> num, den |-> den,
                    visible |-> TRUE, without |-> 0] : l \in MostCommon(h) }
            ELSE IF visible /\ without + 1 < HYSTERESIS
                 THEN { [label |-> l, color |-> "green", num |-> num, den |-> den,
                         visible |-> visible, without |-> without + 1]
                        : l \in MostCommon(h) }
                 ELSE { [label |-> NoPlantDetected, color |-> "red",
                         num |-> num, den |-> den,
                         visible |-> FALSE, without |-> without + 1] }

\* get_stable_prediction(): the results it can return for history h, with
\* the values it leaves in plant_currently_visible and frames_without_plant
get_stable_prediction(h, visible, without) ==
    IF Len(h) = 0
    THEN { [label |-> NoPlantDetected, color |-> "red", num |-> 0, den |-> 1,
            visible |-> visible, without |-> without] }
    ELSE LET num == SmoothedNum(h, Len(h))
             den == SmoothedDen(h)
         IN IF num >= MIN_CONFIDENCE * den
            THEN { [label |-> l, color |-> "green", num |-> num, den |-> den,
                    visible |-> TRUE, without |-> 0] : l \in MostCommon(h) }
            ELSE IF visible /\ without + 1 < HYSTERESIS
                 THEN { [label |-> l, color |-> "green", num |-> num, den |-> den,
                         visible |-> visible, without |-> without + 1]
                        : l \in MostCommon(h) }
                 ELSE { [label |-> NoPlantDetected, color |-> "red",
                         num |-> num, den |-> den,
                         visible |-> FALSE, without |-> 0] }

\* The conjuncts of the gate, each on the value its read returned
SeverityOk(severity) == InSprayDurations(severity)
MoistureOk(moisture) == moisture < MOISTURE_LIMIT
IsPresent(reading) == reading # None
HumidityOk_Inclusive(humidity) == humidity[1] <= HUMIDITY_LIMIT
HumidityOk(humidity) == humidity[1] < HUMIDITY_LIMIT
TemperatureOk(temperature) == temperature[1] < TEMP_LIMIT

\* conditions_met of process_frames_loop
conditions_met(severity, moisture, humidity, temperature, running) ==
    /\ SeverityOk(severity)
    /\ MoistureOk(moisture)
    /\ IsPresent(humidity) /\ HumidityOk(humidity)
    /\ IsPresent(temperature) /\ TemperatureOk(temperature)
    /\ ~running

\* all_conditions_ok of handle_moisture_data
all_conditions_ok(plant_label, moisture, humidity, temperature) ==
    /\ SeverityOk(plant_label)
    /\ plant_label # NoPlantDetected
    /\ MoistureOk(moisture)
    /\ IsPresent(humidity) /\ HumidityOk(humidity)
    /\ IsPresent(temperature) /\ TemperatureOk(temperature)

\* log_event(message, level): the entry appended (without its timestamp)
LogEntry(message, level) == [message |-> message, type |-> level]

(***************************************************************************)
(* State                                                                   *)
(***************************************************************************)
VARIABLES
    motor_running,            \* main.py:83
    spray_lasts_for,          \* main.py:125
    spray_in_progress,        \* main.py:123
    freeze_active,            \* main.py:121
    manual_spray_prompt,      \* main.py:126
    prediction_history,       \* main.py:91
    plant_currently_visible,  \* main.py:92
    frames_without_plant,     \* main.py:93
    current_motor_command,    \* main.py:99
    command_duration,         \* main.py:100
    latest_moisture,          \* main.py:103
    latest_temperature,       \* main.py:104
    latest_humidity,          \* main.py:105
    latest_plant,             \* main.py:108
    force_spray_now,          \* main.py:111
    activity_log,             \* main.py:114
    raw_frame_queue,          \* main.py:117
    processed_frame_queue,    \* main.py:118
    captured,                 \* frames delivered by the capture loop so far
    loop,                     \* process_frames_loop: pc and locals
    sprayer,                  \* run_motor_spray threads: pc and locals
    poller,                   \* /process handler threads: pc and locals
    polls,                    \* /process requests received so far
    dht,                      \* /dht22 handler: pc and request body
    dhts,                     \* /dht22 requests received so far
    force,                    \* /force_spray handler: pc
    forces,                   \* /force_spray requests received so far
    forced,                   \* history: polls that took the force branch
    active_polls,             \* history: handlers whose request arrived while
                              \* motor_running was True and has stayed True
    pi,                       \* pi_client.py sensor_and_motor_loop: pc and locals
    motor,                    \* pi_client.py:30, the pump relay (TRUE: on)
    status,                   \* /status handler: pc, the values read, requests so far
    logs,                     \* /logs handler: the last response, requests so far
    stream                    \* generate_mjpeg_stream, one per consumer: pc and locals

actuator == <<motor_running, spray_lasts_for, spray_in_progress, freeze_active,
              manual_spray_prompt>>
stabilizer == <<prediction_history, plant_currently_visible, frames_without_plant>>
command == <<current_motor_command, command_duration>>
sensors == <<latest_moisture, latest_temperature, latest_humidity>>
channels == <<raw_frame_queue, processed_frame_queue>>
threads == <<captured, loop, sprayer, poller, polls, dht, dhts, force, forces>>
history == <<forced, active_polls>>
remote == <<pi, motor>>
readers == <<status, logs, stream>>

vars == <<actuator, stabilizer, command, sensors, latest_plant, force_spray_now,
          activity_log, channels, threads, history, remote, readers>>

LoopIdle ==
    [pc |-> "check", frame |-> 0, stable_label |-> NoPlantDetected,
     label_color |-> "red", stable_num |-> 0, stable_den |-> 1,
     detected_severity |-> <<"No">>, moisture |-> 0,
     humidity |-> None, temperature |-> None]

SprayerIdle == [pc |-> "unborn", severity_level |-> <<"No">>, duration |-> 0]

\* The Pi client before its first iteration; pi_client.py:30 builds the
\* relay with initial_value=False
PiIdle ==
    [pc |-> "read", outcome |-> "none", command |-> "none", run_for |-> 0,
     posts |-> 0, elapsed |-> 0]

\* The /status handler between requests
StatusIdle ==
    [pc |-> "idle", plant |-> <<"N/A">>, num |-> 0, den |-> 1, moisture |-> 0,
     temperature |-> None, humidity |-> None, motor |-> "none", count |-> 0]

\* The /logs handler before its first request
LogsIdle == [response |-> <<>>, count |-> 0]

\* A generator of /video_feed at line 354, nothing read yet
StreamIdle == [pc |-> "test", item |-> None]

\* request is the moisture of the handler's own request (line 377), kept
\* until the handler returns
PollerIdle ==
    [pc |-> "idle", request |-> 0, plant_label |-> <<"No">>, moisture |-> 0,
     humidity |-> None, temperature |-> None, branch |-> "none",
     motor_command |-> "none", duration |-> 0]

Init ==
    /\ motor_running = FALSE
    /\ spray_lasts_for = 0
    /\ spray_in_progress = FALSE
    /\ freeze_active = FALSE
    /\ manual_spray_prompt = <<>>
    /\ prediction_history = <<>>
    /\ plant_currently_visible = FALSE
    /\ frames_without_plant = 0
    /\ current_motor_command = "STOP"
    /\ command_duration = 0
    /\ latest_moisture = 0
    /\ latest_temperature = None
    /\ latest_humidity = None
    /\ latest_plant = [label |-> NoPlantDetected, num |-> 0, den |-> 1]
    /\ force_spray_now = FALSE
    /\ activity_log = <<LogEntry(<<"System started">>, "info")>>
    /\ raw_frame_queue = <<>>
    /\ processed_frame_queue = <<>>
    /\ captured = 0
    /\ loop = LoopIdle
    /\ sprayer = [s \in Sprayers |-> SprayerIdle]
    /\ poller = [p \in Pollers |-> PollerIdle]
    /\ polls = 0
    /\ dht = [pc |-> "idle", temperature |-> None, humidity |-> None]
    /\ dhts = 0
    /\ force = [pc |-> "idle"]
    /\ forces = 0
    /\ forced = 0
    /\ active_polls = {}
    /\ pi = PiIdle
    /\ motor = FALSE
    /\ status = StatusIdle
    /\ logs = LogsIdle
    /\ stream = [c \in Streams |-> StreamIdle]

(***************************************************************************)
(* capture_loop: cap.read() and raw_frame_queue.append(frame).  A frame is  *)
(* its number in capture order.                                            *)
(***************************************************************************)
Capture(frames) ==
    /\ captured < frames
    /\ captured' = captured + 1
    /\ raw_frame_queue' = DequeAppend(raw_frame_queue, captured + 1, QUEUE_SIZE)
    /\ UNCHANGED <<actuator, stabilizer, command, sensors, latest_plant,
                   force_spray_now, activity_log, processed_frame_queue,
                   loop, sprayer, poller, polls, dht, dhts, force, forces,
                   history,
        remote, readers>>

(***************************************************************************)
(* process_frames_loop                                                     *)
(***************************************************************************)
LoopFrame == <<actuator, command, sensors, force_spray_now, activity_log,
               captured, poller, polls, dht, dhts, force, forces, history,
        remote, readers>>

\* A loop that goes on to line 283 without the test of line 279
LoopCheck_NoTest ==
    /\ loop.pc = "check"
    /\ loop' = [loop EXCEPT !.pc = "take"]
    /\ UNCHANGED <<LoopFrame, stabilizer, latest_plant, channels, sprayer>>

\* line 279: "if not raw_frame_queue" (an empty queue sleeps and retries)
LoopCheck ==
    /\ loop.pc = "check"
    /\ raw_frame_queue # <<>>
    /\ loop' = [loop EXCEPT !.pc = "take"]
    /\ UNCHANGED <<LoopFrame, stabilizer, latest_plant, channels, sprayer>>

\* lines 283-312: popleft, both classifiers, prediction_history.append and
\* get_stable_prediction(); popleft of an empty deque raises IndexError
LoopTake(classifications) ==
    /\ loop.pc = "take"
    /\ IF raw_frame_queue = <<>>
       THEN /\ loop' = [loop EXCEPT !.pc = "crashed"]
            /\ UNCHANGED <<raw_frame_queue, stabilizer>>
       ELSE /\ raw_frame_queue' = Tail(raw_frame_queue)
            /\ \E cl \in classifications :
                 LET h == DequeAppend(prediction_history, HistoryEntry(cl),
                                      HISTORY_SIZE)
                 IN /\ prediction_history' = h
                    /\ \E r \in get_stable_prediction(h, plant_currently_visible,
                                                     frames_without_plant) :
                         /\ plant_currently_visible' = r.visible
                         /\ frames_without_plant' = r.without
                         /\ loop' = [loop EXCEPT
                                       !.pc = "label",
                                       !.frame = Head(raw_frame_queue),
                                       !.stable_label = r.label,
                                       !.label_color = r.color,
                                       !.stable_num = r.num,
                                       !.stable_den = r.den]
    /\ UNCHANGED <<LoopFrame, latest_plant, processed_frame_queue, sprayer>>

\* line 327: latest_plant["label"] = stable_label
LoopWriteLabel ==
    /\ loop.pc = "label"
    /\ latest_plant' = [latest_plant EXCEPT !.label = loop.stable_label]
    /\ loop' = [loop EXCEPT !.pc = "confidence"]
    /\ UNCHANGED <<LoopFrame, stabilizer, channels, sprayer>>

\* lines 328-333: latest_plant["confidence"] = stable_conf, then
\* detected_severity = stable_label.split(" ")[0] and the gate's first
\* conjunct, which reads no global
LoopWriteConfidence ==
    /\ loop.pc = "confidence"
    /\ latest_plant' = [latest_plant EXCEPT !.num = loop.stable_num,
                                            !.den = loop.stable_den]
    /\ LET severity == FirstWord(loop.stable_label)
       IN loop' = [loop EXCEPT
                     !.detected_severity = severity,
                     !.pc = IF SeverityOk(severity) THEN "moisture" ELSE "push"]
    /\ UNCHANGED <<LoopFrame, stabilizer, channels, sprayer>>

\* line 334: latest_moisture < MOISTURE_LIMIT
LoopReadMoisture ==
    /\ loop.pc = "moisture"
    /\ loop' = [loop EXCEPT
                  !.moisture = latest_moisture,
                  !.pc = IF MoistureOk(latest_moisture) THEN "humidity" ELSE "push"]
    /\ UNCHANGED <<LoopFrame, stabilizer, latest_plant, channels, sprayer>>

\* line 335: latest_humidity is not None
LoopReadHumidity ==
    /\ loop.pc = "humidity"
    /\ loop' = [loop EXCEPT
                  !.humidity = latest_humidity,
                  !.pc = IF IsPresent(latest_humidity) THEN "humidity_limit"
                         ELSE "push"]
    /\ UNCHANGED <<LoopFrame, stabilizer, latest_plant, channels, sprayer>>

\* line 335: latest_humidity < HUMIDITY_LIMIT, a second read of the global;
\* None < 70.0 raises TypeError, which ends the thread
LoopCompareHumidity ==
    /\ loop.pc = "humidity_limit"
    /\ loop' = [loop EXCEPT
                  !.humidity = latest_humidity,
                  !.pc = IF ~IsPresent(latest_humidity) THEN "crashed"
                         ELSE IF HumidityOk(latest_humidity) THEN "temperature"
                         ELSE "push"]
    /\ UNCHANGED <<LoopFrame, stabilizer, latest_plant, channels, sprayer>>

\* line 336: latest_temperature is not None
LoopReadTemperature ==
    /\ loop.pc = "temperature"
    /\ loop' = [loop EXCEPT
                  !.temperature = latest_temperature,
                  !.pc = IF IsPresent(latest_temperature) THEN "temperature_limit"
                         ELSE "push"]
    /\ UNCHANGED <<LoopFrame, stabilizer, latest_plant, channels, sprayer>>

\* line 336: latest_temperature < TEMP_LIMIT, a second read of the global
LoopCompareTemperature ==
    /\ loop.pc = "temperature_limit"
    /\ loop' = [loop EXCEPT
                  !.temperature = latest_temperature,
                  !.pc = IF ~IsPresent(latest_temperature) THEN "crashed"
                         ELSE IF TemperatureOk(latest_temperature) THEN "motor"
                         ELSE "push"]
    /\ UNCHANGED <<LoopFrame, stabilizer, latest_plant, channels, sprayer>>

\* lines 337-341: "not motor_running", and with it conditions_met; if it
\* holds, threading.Thread(target=run_motor_spray, ...).start()
LoopTrigger ==
    /\ loop.pc = "motor"
    /\ IF conditions_met(loop.detected_severity, loop.moisture, loop.humidity,
                         loop.temperature, motor_running)
       THEN \E s \in Sprayers :
              /\ sprayer[s].pc = "unborn"
              /\ \A u \in Sprayers : u < s => sprayer[u].pc # "unborn"
              /\ sprayer' = [sprayer EXCEPT
                               ![s] = [pc |-> "start",
                                       severity_level |-> loop.detected_severity,
                                       duration |-> 0]]
       ELSE UNCHANGED sprayer
    /\ loop' = [loop EXCEPT !.pc = "push"]
    /\ UNCHANGED <<LoopFrame, stabilizer, latest_plant, channels>>

\* A loop that joins the spray threads before it pushes the frame
LoopPush_AfterJoin ==
    /\ loop.pc = "push"
    /\ \A s \in Sprayers : sprayer[s].pc = "unborn"
    /\ processed_frame_queue' =
         DequeAppend(processed_frame_queue,
                     [label |-> loop.stable_label, color |-> loop.label_color,
                      num |-> loop.stable_num, den |-> loop.stable_den,
                      frame |-> loop.frame],
                     QUEUE_SIZE)
    /\ loop' = LoopIdle
    /\ UNCHANGED <<LoopFrame, stabilizer, latest_plant, raw_frame_queue, sprayer>>

\* lines 344-345: processed_frame_queue.append(...); the locals are dead
\* until the next frame overwrites them
LoopPush ==
    /\ loop.pc = "push"
    /\ processed_frame_queue' =
         DequeAppend(processed_frame_queue,
                     [label |-> loop.stable_label, color |-> loop.label_color,
                      num |-> loop.stable_num, den |-> loop.stable_den,
                      frame |-> loop.frame],
                     QUEUE_SIZE)
    /\ loop' = LoopIdle
    /\ UNCHANGED <<LoopFrame, stabilizer, latest_plant, raw_frame_queue, sprayer>>

(***************************************************************************)
(* run_motor_spray(severity_level), one thread per trigger                 *)
(***************************************************************************)
SprayFrame == <<stabilizer, command, sensors, latest_plant, force_spray_now,
                channels, captured, loop, poller, polls, dht, dhts, force, forces,
                forced,
        remote, readers>>

\* "Motor ON for {duration}s - {severity_level.upper()} severity"
MotorOnMessage(duration, severity_level) == <<"Motor ON", duration, severity_level>>
\* "Motor OFF - finished {duration}s spray"
MotorOffMessage(duration) == <<"Motor OFF", duration>>

\* A run_motor_spray whose early return runs the cleanup of lines 203-206
SprayStart_ReturnCleans(s) ==
    /\ sprayer[s].pc = "start"
    /\ IF ~InSprayDurations(sprayer[s].severity_level)
       THEN /\ sprayer' = [sprayer EXCEPT ![s] = SprayerIdle]
            /\ motor_running' = FALSE
            /\ spray_in_progress' = FALSE
            /\ freeze_active' = FALSE
            /\ manual_spray_prompt' = <<>>
            /\ UNCHANGED spray_lasts_for
       ELSE LET duration == spray_durations[sprayer[s].severity_level[1]]
            IN /\ spray_lasts_for' = duration
               /\ motor_running' = TRUE
               /\ sprayer' = [sprayer EXCEPT ![s].pc = "log_on",
                                             ![s].duration = duration]
               /\ UNCHANGED <<spray_in_progress, freeze_active,
                              manual_spray_prompt>>
    /\ UNCHANGED <<SprayFrame, activity_log, active_polls>>

\* lines 188-194: the membership test, duration, spray_lasts_for,
\* spray_started_at and motor_running = True
SprayStart(s) ==
    /\ sprayer[s].pc = "start"
    /\ IF ~InSprayDurations(sprayer[s].severity_level)
       THEN /\ sprayer' = [sprayer EXCEPT ![s] = SprayerIdle]
            /\ UNCHANGED actuator
       ELSE LET duration == spray_durations[sprayer[s].severity_level[1]]
            IN /\ spray_lasts_for' = duration
               /\ motor_running' = TRUE
               /\ sprayer' = [sprayer EXCEPT ![s].pc = "log_on",
                                             ![s].duration = duration]
               /\ UNCHANGED <<spray_in_progress, freeze_active,
                              manual_spray_prompt>>
    /\ UNCHANGED <<SprayFrame, activity_log, active_polls>>

\* line 198: log_event(msg, "success"); then time.sleep(duration)
SprayLogOn(s) ==
    /\ sprayer[s].pc = "log_on"
    /\ activity_log' =
         DequeAppend(activity_log,
                     LogEntry(MotorOnMessage(sprayer[s].duration,
                                             sprayer[s].severity_level),
                              "success"),
                     LOG_SIZE)
    /\ sprayer' = [sprayer EXCEPT ![s].pc = "sleep"]
    /\ UNCHANGED <<SprayFrame, actuator, active_polls>>

\* A run_motor_spray that ends its wait without line 203
SprayStop_KeepsRunning(s) ==
    /\ sprayer[s].pc = "sleep"
    /\ spray_in_progress' = FALSE
    /\ freeze_active' = FALSE
    /\ manual_spray_prompt' = <<>>
    /\ sprayer' = [sprayer EXCEPT ![s].pc = "log_off"]
    /\ active_polls' = {}
    /\ UNCHANGED <<SprayFrame, motor_running, spray_lasts_for, activity_log>>

\* lines 201-206: the sleep is over; motor_running = False and the freeze
\* state is cleared
SprayStop(s) ==
    /\ sprayer[s].pc = "sleep"
    /\ motor_running' = FALSE
    /\ spray_in_progress' = FALSE
    /\ freeze_active' = FALSE
    /\ manual_spray_prompt' = <<>>
    /\ sprayer' = [sprayer EXCEPT ![s].pc = "log_off"]
    /\ active_polls' = {}
    /\ UNCHANGED <<SprayFrame, spray_lasts_for, activity_log>>

\* line 208: log_event("Motor OFF ...", "info"); the thread ends
SprayLogOff(s) ==
    /\ sprayer[s].pc = "log_off"
    /\ activity_log' =
         DequeAppend(activity_log,
                     LogEntry(MotorOffMessage(sprayer[s].duration), "info"),
                     LOG_SIZE)
    /\ sprayer' = [sprayer EXCEPT ![s] = SprayerIdle]
    /\ UNCHANGED <<SprayFrame, actuator, active_polls>>

(***************************************************************************)
(* handle_moisture_data, the /process handler; one thread per request      *)
(***************************************************************************)
PollFrame == <<actuator, stabilizer, channels, captured, loop, sprayer,
               dht, dhts, force, forces,
        remote, readers>>
PollQuiet == <<PollFrame, history>>

\* data.get('moisture', 0.0)
GetMoisture(body) == IF body = None THEN 0 ELSE body[1]

\* "Manual override - Force spray for 3s"
ForceSprayMessage == <<"Manual override", FORCE_DURATION>>
\* "Auto spray: {plant_label}, {command_duration}s"
AutoSprayMessage(plant_label, duration) == <<"Auto spray", plant_label, duration>>

\* lines 376-378: a request arrives; latest_moisture = data.get('moisture', 0.0)
PollReceive(p) ==
    /\ poller[p].pc = "idle"
    /\ polls < MaxPolls
    /\ polls' = polls + 1
    /\ \E body \in MoistureBodies :
         /\ latest_moisture' = GetMoisture(body)
         /\ poller' = [poller EXCEPT
                         ![p] = [PollerIdle EXCEPT !.pc = "label",
                                                   !.request = GetMoisture(body)]]
    /\ active_polls' = IF motor_running THEN active_polls \cup {p}
                       ELSE active_polls \ {p}
    /\ UNCHANGED <<PollFrame, forced, command, latest_temperature, latest_humidity,
                   latest_plant, force_spray_now, activity_log>>

\* line 380: plant_label = latest_plant.get("label", "").split(" ")[0]
PollReadLabel(p) ==
    /\ poller[p].pc = "label"
    /\ poller' = [poller EXCEPT ![p].plant_label = FirstWord(latest_plant.label),
                                ![p].pc = "force"]
    /\ UNCHANGED <<PollQuiet, command, sensors, latest_plant, force_spray_now,
                   activity_log, polls>>

\* line 382: "if force_spray_now"; in the else branch lines 392-393, which
\* read no global
PollReadForce(p) ==
    /\ poller[p].pc = "force"
    /\ poller' = [poller EXCEPT
                    ![p].branch = IF force_spray_now THEN "force" ELSE "gate",
                    ![p].pc = IF force_spray_now THEN "force_command"
                              ELSE IF /\ SeverityOk(poller[p].plant_label)
                                      /\ poller[p].plant_label # NoPlantDetected
                                   THEN "moisture"
                                   ELSE "stop_command"]
    /\ forced' = IF force_spray_now THEN forced + 1 ELSE forced
    /\ UNCHANGED <<PollFrame, active_polls, command, sensors, latest_plant, force_spray_now,
                   activity_log, polls>>

\* line 384: current_motor_command = "RUN"
PollForceCommand(p) ==
    /\ poller[p].pc = "force_command"
    /\ current_motor_command' = "RUN"
    /\ poller' = [poller EXCEPT ![p].pc = "force_duration"]
    /\ UNCHANGED <<PollQuiet, command_duration, sensors, latest_plant,
                   force_spray_now, activity_log, polls>>

\* line 385: command_duration = 3
PollForceDuration(p) ==
    /\ poller[p].pc = "force_duration"
    /\ command_duration' = FORCE_DURATION
    /\ poller' = [poller EXCEPT ![p].pc = "force_reset"]
    /\ UNCHANGED <<PollQuiet, current_motor_command, sensors, latest_plant,
                   force_spray_now, activity_log, polls>>

\* line 386: force_spray_now = False
PollForceReset(p) ==
    /\ poller[p].pc = "force_reset"
    /\ force_spray_now' = FALSE
    /\ poller' = [poller EXCEPT ![p].pc = "force_log"]
    /\ UNCHANGED <<PollQuiet, command, sensors, latest_plant, activity_log, polls>>

\* line 388: log_event("Manual override ...", "warning")
PollForceLog(p) ==
    /\ poller[p].pc = "force_log"
    /\ activity_log' = DequeAppend(activity_log,
                                   LogEntry(ForceSprayMessage, "warning"), LOG_SIZE)
    /\ poller' = [poller EXCEPT ![p].pc = "respond"]
    /\ UNCHANGED <<PollQuiet, command, sensors, latest_plant, force_spray_now,
                   polls>>

\* A gate with a cooldown: it denies when the answer before was RUN
PollReadMoisture_Cooldown(p) ==
    /\ poller[p].pc = "moisture"
    /\ poller' = [poller EXCEPT
                    ![p].moisture = latest_moisture,
                    ![p].pc = IF MoistureOk(latest_moisture)
                                 /\ current_motor_command # "RUN"
                              THEN "humidity" ELSE "stop_command"]
    /\ UNCHANGED <<PollQuiet, command, sensors, latest_plant, force_spray_now,
                   activity_log, polls>>

\* line 394: latest_moisture < MOISTURE_LIMIT
PollReadMoisture(p) ==
    /\ poller[p].pc = "moisture"
    /\ poller' = [poller EXCEPT
                    ![p].moisture = latest_moisture,
                    ![p].pc = IF MoistureOk(latest_moisture) THEN "humidity"
                              ELSE "stop_command"]
    /\ UNCHANGED <<PollQuiet, command, sensors, latest_plant, force_spray_now,
                   activity_log, polls>>

\* line 395: latest_humidity is not None
PollReadHumidity(p) ==
    /\ poller[p].pc = "humidity"
    /\ poller' = [poller EXCEPT
                    ![p].humidity = latest_humidity,
                    ![p].pc = IF IsPresent(latest_humidity) THEN "humidity_limit"
                              ELSE "stop_command"]
    /\ UNCHANGED <<PollQuiet, command, sensors, latest_plant, force_spray_now,
                   activity_log, polls>>

\* line 395: latest_humidity < HUMIDITY_LIMIT, a second read of the global;
\* None < 70.0 raises TypeError and Flask answers 500
PollCompareHumidity(p) ==
    /\ poller[p].pc = "humidity_limit"
    /\ poller' = [poller EXCEPT
                    ![p].humidity = latest_humidity,
                    ![p].pc = IF ~IsPresent(latest_humidity) THEN "idle"
                              ELSE IF HumidityOk(latest_humidity) THEN "temperature"
                              ELSE "stop_command",
                    ![p].request = IF ~IsPresent(latest_humidity) THEN 0 ELSE @,
                    ![p].motor_command =
                        IF ~IsPresent(latest_humidity) THEN "error" ELSE @]
    /\ UNCHANGED <<PollQuiet, command, sensors, latest_plant, force_spray_now,
                   activity_log, polls>>

\* line 396: latest_temperature is not None
PollReadTemperature(p) ==
    /\ poller[p].pc = "temperature"
    /\ poller' = [poller EXCEPT
                    ![p].temperature = latest_temperature,
                    ![p].pc = IF IsPresent(latest_temperature)
                              THEN "temperature_limit" ELSE "stop_command"]
    /\ UNCHANGED <<PollQuiet, command, sensors, latest_plant, force_spray_now,
                   activity_log, polls>>

\* line 396: latest_temperature < TEMP_LIMIT, a second read of the global;
\* with it all_conditions_ok is decided
PollCompareTemperature(p) ==
    /\ poller[p].pc = "temperature_limit"
    /\ poller' = [poller EXCEPT
                    ![p].temperature = latest_temperature,
                    ![p].pc = IF ~IsPresent(latest_temperature) THEN "idle"
                              ELSE IF all_conditions_ok(poller[p].plant_label,
                                                        poller[p].moisture,
                                                        poller[p].humidity,
                                                        latest_temperature)
                              THEN "run_command" ELSE "stop_command",
                    ![p].request = IF ~IsPresent(latest_temperature) THEN 0 ELSE @,
                    ![p].motor_command =
                        IF ~IsPresent(latest_temperature) THEN "error" ELSE @]
    /\ UNCHANGED <<PollQuiet, command, sensors, latest_plant, force_spray_now,
                   activity_log, polls>>

\* line 399: current_motor_command = "RUN"
PollRunCommand(p) ==
    /\ poller[p].pc = "run_command"
    /\ current_motor_command' = "RUN"
    /\ poller' = [poller EXCEPT ![p].pc = "run_duration"]
    /\ UNCHANGED <<PollQuiet, command_duration, sensors, latest_plant,
                   force_spray_now, activity_log, polls>>

\* line 400: command_duration = spray_durations[plant_label]
PollRunDuration(p) ==
    /\ poller[p].pc = "run_duration"
    /\ command_duration' = spray_durations[poller[p].plant_label[1]]
    /\ poller' = [poller EXCEPT ![p].pc = "run_log"]
    /\ UNCHANGED <<PollQuiet, current_motor_command, sensors, latest_plant,
                   force_spray_now, activity_log, polls>>

\* lines 401-402: the f-strings read command_duration again;
\* log_event("Auto spray: ...", "success")
PollRunLog(p) ==
    /\ poller[p].pc = "run_log"
    /\ activity_log' =
         DequeAppend(activity_log,
                     LogEntry(AutoSprayMessage(poller[p].plant_label,
                                               command_duration), "success"),
                     LOG_SIZE)
    /\ poller' = [poller EXCEPT ![p].pc = "respond"]
    /\ UNCHANGED <<PollQuiet, command, sensors, latest_plant, force_spray_now,
                   polls>>

\* line 404: current_motor_command = "STOP"
PollStopCommand(p) ==
    /\ poller[p].pc = "stop_command"
    /\ current_motor_command' = "STOP"
    /\ poller' = [poller EXCEPT ![p].pc = "stop_duration"]
    /\ UNCHANGED <<PollQuiet, command_duration, sensors, latest_plant,
                   force_spray_now, activity_log, polls>>

\* line 405: command_duration = 0
PollStopDuration(p) ==
    /\ poller[p].pc = "stop_duration"
    /\ command_duration' = 0
    /\ poller' = [poller EXCEPT ![p].pc = "respond"]
    /\ UNCHANGED <<PollQuiet, current_motor_command, sensors, latest_plant,
                   force_spray_now, activity_log, polls>>

\* line 407: the response's "motor_command" is read from current_motor_command
PollRespondCommand(p) ==
    /\ poller[p].pc = "respond"
    /\ poller' = [poller EXCEPT ![p].motor_command = current_motor_command,
                                ![p].pc = "respond_duration"]
    /\ UNCHANGED <<PollQuiet, command, sensors, latest_plant, force_spray_now,
                   activity_log, polls>>

\* line 407: the response's "duration" is read from command_duration; the
\* response is sent and the thread is free for another request
PollRespondDuration(p) ==
    /\ poller[p].pc = "respond_duration"
    /\ poller' = [poller EXCEPT ![p].duration = command_duration,
                                ![p].request = 0,
                                ![p].pc = "idle"]
    /\ UNCHANGED <<PollQuiet, command, sensors, latest_plant, force_spray_now,
                   activity_log, polls>>

(***************************************************************************)
(* handle_dht22_data, the /dht22 handler                                   *)
(***************************************************************************)
DhtFrame == <<actuator, stabilizer, command, latest_plant, force_spray_now,
              activity_log, channels, captured, loop, sprayer, poller, polls,
              force, forces, history,
        remote, readers>>

\* lines 415-416: latest_temperature = data.get('temperature')
DhtWriteTemperature(bodies) ==
    /\ dht.pc = "idle"
    /\ dhts < MaxDht
    /\ dhts' = dhts + 1
    /\ \E body \in bodies :
         /\ latest_temperature' = body.temperature
         /\ dht' = [pc |-> "humidity", temperature |-> body.temperature,
                    humidity |-> body.humidity]
    /\ UNCHANGED <<DhtFrame, latest_moisture, latest_humidity>>

\* A handler that keeps the stored humidity when the report has none
DhtWriteHumidity_KeepsStored ==
    /\ dht.pc = "humidity"
    /\ latest_humidity' = IF dht.humidity = None THEN latest_humidity ELSE dht.humidity
    /\ dht' = [pc |-> "idle", temperature |-> None, humidity |-> None]
    /\ UNCHANGED <<DhtFrame, latest_moisture, latest_temperature, dhts>>

\* line 417: latest_humidity = data.get('humidity')
DhtWriteHumidity ==
    /\ dht.pc = "humidity"
    /\ latest_humidity' = dht.humidity
    /\ dht' = [pc |-> "idle", temperature |-> None, humidity |-> None]
    /\ UNCHANGED <<DhtFrame, latest_moisture, latest_temperature, dhts>>

(***************************************************************************)
(* trigger_force_spray, the /force_spray handler                           *)
(***************************************************************************)
ForceFrame == <<actuator, stabilizer, command, sensors, latest_plant, channels,
                captured, loop, sprayer, poller, polls, dht, dhts, history,
        remote, readers>>

\* "Force spray requested from dashboard"
ForceRequestedMessage == <<"Force spray requested">>

\* A /force_spray handler that also switches the motor flag off
ForceSet_StopsMotor ==
    /\ force.pc = "idle"
    /\ forces < MaxForce
    /\ forces' = forces + 1
    /\ force_spray_now' = TRUE
    /\ motor_running' = FALSE
    /\ force' = [pc |-> "log"]
    /\ UNCHANGED <<spray_lasts_for, spray_in_progress, freeze_active,
                   manual_spray_prompt, stabilizer, command, sensors,
                   latest_plant, channels, captured, loop, sprayer, poller,
                   polls, dht, dhts, history, remote, readers, activity_log>>

\* line 446: force_spray_now = True
ForceSet ==
    /\ force.pc = "idle"
    /\ forces < MaxForce
    /\ forces' = forces + 1
    /\ force_spray_now' = TRUE
    /\ force' = [pc |-> "log"]
    /\ UNCHANGED <<ForceFrame, activity_log>>

\* line 447: log_event("Force spray requested from dashboard", "warning")
ForceLog ==
    /\ force.pc = "log"
    /\ activity_log' = DequeAppend(activity_log,
                                   LogEntry(ForceRequestedMessage, "warning"),
                                   LOG_SIZE)
    /\ force' = [pc |-> "idle"]
    /\ UNCHANGED <<ForceFrame, force_spray_now, forces>>

(***************************************************************************)
(* Specifications                                                          *)
(***************************************************************************)
LoopStep(classifications) ==
    \/ LoopCheck
    \/ LoopTake(classifications)
    \/ LoopWriteLabel
    \/ LoopWriteConfidence
    \/ LoopReadMoisture
    \/ LoopReadHumidity
    \/ LoopCompareHumidity
    \/ LoopReadTemperature
    \/ LoopCompareTemperature
    \/ LoopTrigger
    \/ LoopPush

SprayStep(s) ==
    \/ SprayStart(s)
    \/ SprayLogOn(s)
    \/ SprayStop(s)
    \/ SprayLogOff(s)

PollStep(p) ==
    \/ PollReceive(p)
    \/ PollReadLabel(p)
    \/ PollReadForce(p)
    \/ PollForceCommand(p)
    \/ PollForceDuration(p)
    \/ PollForceReset(p)
    \/ PollForceLog(p)
    \/ PollReadMoisture(p)
    \/ PollReadHumidity(p)
    \/ PollCompareHumidity(p)
    \/ PollReadTemperature(p)
    \/ PollCompareTemperature(p)
    \/ PollRunCommand(p)
    \/ PollRunDuration(p)
    \/ PollRunLog(p)
    \/ PollStopCommand(p)
    \/ PollStopDuration(p)
    \/ PollRespondCommand(p)
    \/ PollRespondDuration(p)

DhtStep(bodies) ==
    \/ DhtWriteTemperature(bodies)
    \/ DhtWriteHumidity

ForceStep ==
    \/ ForceSet
    \/ ForceLog

\* Spec: the whole server with its shipped clients: one /process handler
\* thread (the Pi client polls sequentially), /dht22 reports that carry both
\* readings, and the camera delivering FullFrames frames.
Next ==
    \/ Capture(FullFrames)
    \/ LoopStep(Classifications)
    \/ \E s \in Sprayers : SprayStep(s)
    \/ PollStep(1)
    \/ DhtStep(ClientDhtBodies)
    \/ ForceStep

Spec == Init /\ [][Next]_vars

\* SpecLocal: the local pipeline alone (capture, processing loop, spray
\* threads) with /dht22 reports of any accepted body; no /process or
\* /force_spray request.
NextLocal ==
    \/ Capture(MaxFrames)
    \/ LoopStep(Classifications)
    \/ \E s \in Sprayers : SprayStep(s)
    \/ DhtStep(DhtBodies)

SpecLocal == Init /\ [][NextLocal]_vars

\* SpecPoll: the request handlers alone, NumPollers /process handlers at
\* once, from the states the server is in when the processing loop has
\* published the stable reading of one frame (of any classification) before
\* the first request, and the camera then delivers nothing: with no
\* humidity yet the loop's gate denied, so no spray thread exists.
InitPoll ==
    \E cl \in Classifications :
      \E r \in get_stable_prediction(<<HistoryEntry(cl)>>, FALSE, 0) :
        /\ motor_running = FALSE
        /\ spray_lasts_for = 0
        /\ spray_in_progress = FALSE
        /\ freeze_active = FALSE
        /\ manual_spray_prompt = <<>>
        /\ prediction_history = <<HistoryEntry(cl)>>
        /\ plant_currently_visible = r.visible
        /\ frames_without_plant = r.without
        /\ current_motor_command = "STOP"
        /\ command_duration = 0
        /\ latest_moisture = 0
        /\ latest_temperature = None
        /\ latest_humidity = None
        /\ latest_plant = [label |-> r.label, num |-> r.num, den |-> r.den]
        /\ force_spray_now = FALSE
        /\ activity_log = <<LogEntry(<<"System started">>, "info")>>
        /\ raw_frame_queue = <<>>
        /\ processed_frame_queue =
             <<[label |-> r.label, color |-> r.color, num |-> r.num,
                den |-> r.den, frame |-> 1]>>
        /\ captured = 1
        /\ loop = LoopIdle
        /\ sprayer = [s \in Sprayers |-> SprayerIdle]
        /\ poller = [p \in Pollers |-> PollerIdle]
        /\ polls = 0
        /\ dht = [pc |-> "idle", temperature |-> None, humidity |-> None]
        /\ dhts = 0
        /\ force = [pc |-> "idle"]
        /\ forces = 0
        /\ forced = 0
        /\ active_polls = {}
        /\ pi = PiIdle
        /\ motor = FALSE
        /\ status = StatusIdle
        /\ logs = LogsIdle
        /\ stream = [c \in Streams |-> StreamIdle]

NextPoll ==
    \/ \E p \in Pollers : PollStep(p)
    \/ DhtStep(DhtBodies)
    \/ ForceStep

SpecPoll == InitPoll /\ [][NextPoll]_vars

\* SpecStabilizer: the processing loop before any /dht22 report or request
\* has arrived (the gate denies at its humidity test), with the classifier
\* outcomes of StabClassifications for StabFrames frames.
NextStabilizer ==
    \/ Capture(StabFrames)
    \/ LoopCheck
    \/ LoopTake(StabClassifications)
    \/ LoopWriteLabel
    \/ LoopWriteConfidence
    \/ LoopReadMoisture
    \/ LoopReadHumidity
    \/ LoopPush

SpecStabilizer == Init /\ [][NextStabilizer]_vars

\* SpecGate: the local gate as a function of its inputs.  The processing
\* loop has just published a stable label (line 327); label, moisture,
\* humidity, temperature and the actuator flag are drawn from GateLabels,
\* GateMoistures, GateHumidities, GateTemperatures and BOOLEAN, and nothing
\* writes them while the loop evaluates lines 328-345.
GateLabels ==
    {NoPlantDetected} \cup {<<c, FormatConfidence(90)>> : c \in severity_classes}
GateMoistures == {39, 40, 41}
GateHumidities == {None, Some(50), Some(69), Some(70), Some(75)}
GateTemperatures == {None, Some(22), Some(29), Some(30), Some(31)}

\* The gate scenario with the activity log holding the entries of past
\* events
InitGateLog(past) ==
    \E l \in GateLabels, m \in GateMoistures, h \in GateHumidities,
       t \in GateTemperatures, running \in BOOLEAN :
        /\ motor_running = running
        /\ spray_lasts_for = IF running THEN spray_durations["high"] ELSE 0
        /\ spray_in_progress = FALSE
        /\ freeze_active = FALSE
        /\ manual_spray_prompt = <<>>
        /\ prediction_history =
             <<[label |-> l, conf |-> IF l = NoPlantDetected THEN 0 ELSE 90]>>
        /\ plant_currently_visible = (l # NoPlantDetected)
        /\ frames_without_plant = 0
        /\ current_motor_command = "STOP"
        /\ command_duration = 0
        /\ latest_moisture = m
        /\ latest_temperature = t
        /\ latest_humidity = h
        /\ latest_plant = [label |-> l, num |-> 0, den |-> 1]
        /\ force_spray_now = FALSE
        /\ activity_log =
             past
             \o ( IF running
                  THEN <<LogEntry(MotorOnMessage(spray_durations["high"],
                                                 <<"high">>), "success")>>
                  ELSE <<>> )
        /\ raw_frame_queue = <<>>
        /\ processed_frame_queue = <<>>
        /\ captured = 1
        /\ loop = [LoopIdle EXCEPT
                     !.pc = "confidence", !.frame = 1, !.stable_label = l,
                     !.label_color = IF l = NoPlantDetected THEN "red" ELSE "green",
                     !.stable_num = IF l = NoPlantDetected THEN 0 ELSE 90]
        /\ sprayer = [s \in Sprayers |->
                        IF running /\ s = 1
                        THEN [pc |-> "sleep", severity_level |-> <<"high">>,
                              duration |-> spray_durations["high"]]
                        ELSE SprayerIdle]
        /\ poller = [p \in Pollers |-> PollerIdle]
        /\ polls = 0
        /\ dht = [pc |-> "idle", temperature |-> None, humidity |-> None]
        /\ dhts = 0
        /\ force = [pc |-> "idle"]
        /\ forces = 0
        /\ forced = 0
        /\ active_polls = {}
        /\ pi = PiIdle
        /\ motor = FALSE
        /\ status = StatusIdle
        /\ logs = LogsIdle
        /\ stream = [c \in Streams |-> StreamIdle]

InitGate == InitGateLog(<<LogEntry(<<"System started">>, "info")>>)

NextGate ==
    \/ LoopWriteConfidence
    \/ LoopReadMoisture
    \/ LoopReadHumidity
    \/ LoopCompareHumidity
    \/ LoopReadTemperature
    \/ LoopCompareTemperature
    \/ LoopTrigger
    \/ LoopPush

SpecGate == InitGate /\ [][NextGate]_vars

\* SpecSession: one gate evaluation of the processing loop and the spray
\* threads it starts, from every input of SpecGate.
NextSession ==
    \/ LoopWriteConfidence
    \/ LoopReadMoisture
    \/ LoopReadHumidity
    \/ LoopCompareHumidity
    \/ LoopReadTemperature
    \/ LoopCompareTemperature
    \/ LoopTrigger
    \/ LoopPush
    \/ \E s \in Sprayers : SprayStep(s)

SpecSession == InitGate /\ [][NextSession]_vars

(***************************************************************************)
(* Properties                                                              *)
(***************************************************************************)
\* A spray thread is in a session from line 194 (motor_running = True) to
\* line 203 (motor_running = False)
InSession(s) == sprayer[s].pc \in {"log_on", "sleep"}

\* The handler of p has sent its response
Responded(p) == poller[p].pc = "idle" /\ poller[p].motor_command # "none"

\* The step in which the handler of p returns its response (line 407)
Returns(p) == poller[p].pc = "respond_duration" /\ poller'[p].pc = "idle"

\* The step in which the processing loop ends a gate evaluation
LocalDecision ==
    /\ loop.pc \in {"confidence", "moisture", "humidity", "humidity_limit",
                    "temperature", "temperature_limit", "motor"}
    /\ loop'.pc = "push"

\* The step in which the processing loop starts a spray thread
SessionSpawned == \E s \in Sprayers : sprayer[s].pc = "unborn" /\ sprayer'[s].pc = "start"

\* C1: at most one actuation session is in progress: no two executions of
\* run_motor_spray are at once between motor_running = True and
\* motor_running = False.
C1_AtMostOneSession == Cardinality({s \in Sprayers : InSession(s)}) <= 1

\* C2: fail-closed gate.  A poll that took the non-forced branch and whose
\* read of latest_humidity or latest_temperature returned None answers STOP
\* with duration 0, and the local evaluation never reaches the point where
\* it starts a session with one of the two absent.
C2_FailClosedGate ==
    /\ \A p \in Pollers :
         ( /\ Responded(p)
           /\ poller[p].branch = "gate"
           /\ (poller[p].humidity = None \/ poller[p].temperature = None) )
         => (poller[p].motor_command = "STOP" /\ poller[p].duration = 0)
    /\ loop.pc = "motor" => (loop.humidity # None /\ loop.temperature # None)

\* C3: a poll handled while the controller is active (motor_running True
\* from the arrival of the request to the response) answers STOP with
\* duration 0.
C3_PollWhileActiveAnswersStop ==
    \A p \in Pollers :
      (Responded(p) /\ p \in active_polls)
      => (poller[p].motor_command = "STOP" /\ poller[p].duration = 0)

\* C4: no double trigger: the polls that took the force branch never
\* outnumber the /force_spray requests.
C4_NoDoubleTrigger == forced <= forces

\* C5: idempotent consumption: once every /force_spray request so far has
\* been consumed by a poll taking the force branch, the next poll to
\* evaluate the flag takes the gate branch.
C5_IdempotentConsumption ==
    [][ \A p \in Pollers :
          (poller[p].pc = "force" /\ poller'[p].pc # "force" /\ forced >= forces)
          => poller'[p].branch = "gate" ]_vars

\* C6: a poll that found force_spray_now True answers RUN with duration 3,
\* and the flag is False when its handler returns.
C6_ForceShortCircuitsGate ==
    [][ \A p \in Pollers :
          (Returns(p) /\ poller[p].branch = "force")
          => /\ poller'[p].motor_command = "RUN"
             /\ poller'[p].duration = FORCE_DURATION
             /\ ~force_spray_now' ]_vars

\* C7: the decision cycle that follows a force request, local or remote,
\* consumes the flag and takes the controller to Running with planned
\* duration 3: a local decision made with the flag set clears it and starts
\* a session, and when a poll that took the force branch returns the
\* controller is Running for 3 s and the flag is False.
C7_ForceStartsSession ==
    [][ /\ (LocalDecision /\ force_spray_now)
           => (~force_spray_now' /\ SessionSpawned)
        /\ \A p \in Pollers :
             (Returns(p) /\ poller[p].branch = "force")
             => /\ motor_running'
                /\ spray_lasts_for' = FORCE_DURATION
                /\ ~force_spray_now' ]_vars

\* C8: a force trigger consumed while a session is active is rejected: a
\* poll handled while motor_running is True that took the force branch
\* yields no RUN command.
C8_ForceRejectedWhileActive ==
    \A p \in Pollers :
      (Responded(p) /\ p \in active_polls /\ poller[p].branch = "force")
      => poller[p].motor_command # "RUN"

\* C9: single source of truth: on the current stable label, moisture,
\* humidity, temperature and actuator flag, the local auto-trigger's
\* decision equals the poll handler's non-forced decision.
C9_SingleSourceOfTruth ==
    conditions_met(FirstWord(latest_plant.label), latest_moisture,
                   latest_humidity, latest_temperature, motor_running)
    = all_conditions_ok(FirstWord(latest_plant.label), latest_moisture,
                        latest_humidity, latest_temperature)

\* C10: the local gate allows (starts a spray thread) exactly when the first
\* word of the stable label is low, medium or high, moisture < 40, humidity
\* is present and < 70, temperature is present and < 30, and the actuator
\* is not active.
GateStartedSession == \E s \in Sprayers : sprayer[s].pc = "start"

C10_GateAllowsExactly ==
    (loop.pc = "push")
    => ( GateStartedSession
         <=> /\ latest_plant.label[1] \in {"low", "medium", "high"}
             /\ latest_moisture < 40
             /\ latest_humidity # None /\ latest_humidity[1] < 70
             /\ latest_temperature # None /\ latest_temperature[1] < 30
             /\ ~motor_running )

\* C10 witness: the gate has allowed severity high at moisture 39,
\* humidity 69 and temperature 29 with the actuator idle.
C10_Witness ==
    /\ loop.pc = "push"
    /\ GateStartedSession
    /\ latest_plant.label[1] = "high"
    /\ latest_moisture = 39
    /\ latest_humidity = Some(69)
    /\ latest_temperature = Some(29)
    /\ ~motor_running

(***************************************************************************)
(* Liveness of the local pipeline.  A started thread is scheduled until it  *)
(* ends and time.sleep(duration) returns: every spray thread is weakly      *)
(* fair.  The processing loop is a "while True" of a running thread.        *)
(***************************************************************************)
SpecSessionFair ==
    /\ SpecSession
    /\ \A s \in Sprayers : WF_vars(SprayStep(s))
    /\ WF_vars(NextGate)

\* The activity log holds entry e
Logged(e) == \E i \in 1..Len(activity_log) : activity_log[i] = e

\* The step in which thread s executes lines 188-194 for a severity of the table
StartsSession(s) ==
    /\ sprayer[s].pc = "start"
    /\ sprayer'[s].pc = "log_on"

\* The step in which thread s logs "Motor OFF" and ends (line 208)
CompletesSession(s) ==
    /\ sprayer[s].pc = "log_off"
    /\ sprayer'[s].pc = "unborn"

\* C11: when the local gate has allowed for severity s (a spray thread was
\* started for s), the controller becomes Running with planned duration 2,
\* 3 or 5 s for low, medium or high and the start event is logged; the
\* thread then returns the controller to Idle (motor_running False) and
\* appends the completion event to a log that holds its start event.
C11_SessionRunsToCompletion ==
    /\ [][ \A s \in Sprayers :
             /\ StartsSession(s)
                => /\ motor_running'
                   /\ spray_lasts_for' =
                        ( CASE sprayer[s].severity_level = <<"low">> -> 2
                            [] sprayer[s].severity_level = <<"medium">> -> 3
                            [] sprayer[s].severity_level = <<"high">> -> 5
                            [] OTHER -> 0 )
             /\ CompletesSession(s)
                => /\ activity_log'[Len(activity_log')]
                        = LogEntry(MotorOffMessage(sprayer[s].duration), "info")
                   /\ Logged(LogEntry(MotorOnMessage(sprayer[s].duration,
                                                     sprayer[s].severity_level),
                                      "success")) ]_vars
    /\ \A s \in Sprayers :
         /\ (sprayer[s].pc = "start")
              ~> ( /\ sprayer[s].pc = "sleep"
                   /\ Logged(LogEntry(MotorOnMessage(sprayer[s].duration,
                                                     sprayer[s].severity_level),
                                      "success")) )
         /\ (sprayer[s].pc = "sleep") ~> (sprayer[s].pc = "log_off" /\ ~motor_running)
         /\ (sprayer[s].pc = "log_off") ~> (sprayer[s].pc = "unborn")

\* C11 witness: a session for severity high has run to completion: the log
\* holds "Motor ON for 5s - HIGH" and after it "Motor OFF - finished 5s",
\* and the controller is Idle.
C11_Witness ==
    /\ ~motor_running
    /\ \A s \in Sprayers : sprayer[s].pc = "unborn"
    /\ \E i, j \in 1..Len(activity_log) :
         /\ i < j
         /\ activity_log[i] = LogEntry(MotorOnMessage(5, <<"high">>), "success")
         /\ activity_log[j] = LogEntry(MotorOffMessage(5), "info")

\* The duration the table gives for severity word w (a one-word string)
TableDuration(w) ==
    CASE w = <<"low">> -> 2
      [] w = <<"medium">> -> 3
      [] w = <<"high">> -> 5
      [] OTHER -> 0

\* C12: durations follow the table.  A non-forced RUN response carries 2, 3
\* or 5 for the severity low, medium or high that the same poll read; a
\* forced RUN carries 3; a STOP carries 0; and a local session's planned
\* duration is the table entry of the severity that triggered it.
C12_DurationsFollowTable ==
    /\ \A p \in Pollers :
         Responded(p) =>
           /\ (poller[p].motor_command = "RUN" /\ poller[p].branch = "gate")
                => ( /\ poller[p].plant_label \in {<<"low">>, <<"medium">>, <<"high">>}
                     /\ poller[p].duration = TableDuration(poller[p].plant_label) )
           /\ (poller[p].motor_command = "RUN" /\ poller[p].branch = "force")
                => poller[p].duration = 3
           /\ (poller[p].motor_command = "STOP") => poller[p].duration = 0
    /\ \A s \in Sprayers :
         InSession(s) => sprayer[s].duration = TableDuration(sprayer[s].severity_level)

(***************************************************************************)
(* Stabilizer properties, over the history of the frames processed so far  *)
(* (fewer than HISTORY_SIZE in these specifications, so the window is the   *)
(* whole history)                                                          *)
(***************************************************************************)
\* get_stable_prediction() has just returned for the newest history entry
Evaluated == loop.pc = "label"

\* line 165 fails: the smoothed confidence over history h is below the threshold
BelowThreshold(h) == SmoothedNum(h, Len(h)) < MIN_CONFIDENCE * SmoothedDen(h)

\* plant_currently_visible and frames_without_plant after the evaluations of
\* the first n entries of h, one evaluation per entry
RECURSIVE StabState(_, _)
StabState(h, n) ==
    IF n = 0 THEN [visible |-> FALSE, without |-> 0]
    ELSE LET prev == StabState(h, n - 1)
             r == CHOOSE x \in get_stable_prediction(SubSeq(h, 1, n),
                                                     prev.visible, prev.without) : TRUE
         IN [visible |-> r.visible, without |-> r.without]

\* History h is a run of classifications of severity sev at or above the
\* minimum confidence, but for entry i, which is below it (or no plant)
RunWithOneLowFrame(h, sev, i) ==
    /\ Len(h) >= 3
    /\ i \in 2..Len(h)
    /\ h[i].conf < MIN_CONFIDENCE
    /\ \A j \in 1..Len(h) :
         j # i => (h[j].label[1] = sev /\ h[j].conf >= MIN_CONFIDENCE)

\* C13: stabilizer debounce.  One low-confidence or no-plant frame inserted
\* into a run of high-confidence classifications of one severity never
\* makes the stable label No Plant Detected or another severity; and an
\* evaluation below the threshold that is among the first HYSTERESIS - 1 in
\* a row after a visible state returns the previous stable label.
C13_StabilizerDebounce ==
    [][ (loop.pc = "take" /\ loop'.pc = "label") =>
          /\ \A sev \in severity_classes, i \in 1..Len(prediction_history') :
               RunWithOneLowFrame(prediction_history', sev, i)
               => ( /\ loop'.stable_label # NoPlantDetected
                    /\ loop'.stable_label[1] = sev )
          /\ ( /\ plant_currently_visible
               /\ frames_without_plant + 1 < 5
               /\ BelowThreshold(prediction_history') )
             => loop'.stable_label = latest_plant.label ]_vars

\* The subject was visible after entry n - 5 of history h, n = Len(h)
VisibleFiveBack(h) == Len(h) >= 6 /\ StabState(h, Len(h) - 5).visible

\* C14 (as claimed): from a visible state, after 5 consecutive processed
\* frames whose classification confidence is below the minimum confidence,
\* get_stable_prediction returns No Plant Detected.
C14_FlipAfterLowConfidenceFrames ==
    ( /\ Evaluated
      /\ VisibleFiveBack(prediction_history)
      /\ \A k \in (Len(prediction_history) - 4)..Len(prediction_history) :
           prediction_history[k].conf < MIN_CONFIDENCE )
    => loop.stable_label = NoPlantDetected

\* C14 (amended): from a visible state, after 5 consecutive evaluations
\* whose smoothed confidence is below the minimum confidence,
\* get_stable_prediction returns No Plant Detected.
C14_FlipAfterBelowThresholdEvaluations ==
    ( /\ Evaluated
      /\ VisibleFiveBack(prediction_history)
      /\ \A k \in (Len(prediction_history) - 4)..Len(prediction_history) :
           BelowThreshold(SubSeq(prediction_history, 1, k)) )
    => loop.stable_label = NoPlantDetected

\* C14 witness: a frame classified at 36 % made the subject visible, the
\* next five evaluations were below the threshold, and the fifth returned
\* No Plant Detected.
C14_Witness ==
    /\ Evaluated
    /\ Len(prediction_history) = 6
    /\ prediction_history[1].conf = 36
    /\ VisibleFiveBack(prediction_history)
    /\ \A k \in 2..6 : BelowThreshold(SubSeq(prediction_history, 1, k))
    /\ loop.stable_label = NoPlantDetected
    /\ ~plant_currently_visible

(***************************************************************************)
(* Channel properties                                                      *)
(***************************************************************************)
\* The step in which the processing loop takes a frame (line 283)
TakesFrame == loop.pc = "take" /\ loop'.pc = "label"

\* C15: freshness of the raw-frame channel.  A take returns the frame put
\* last (after put(a), put(b) with no take in between it returns b), and a
\* frame put before the one a take returned is never returned by a later
\* take: each take returns a later frame than every take before it.
C15_TakeReturnsLatestPut ==
    [][ TakesFrame =>
          /\ loop'.frame = captured
          /\ \A i \in 1..Len(processed_frame_queue) :
               processed_frame_queue[i].frame < loop'.frame ]_vars

\* C15 witness: frames 1 and 2 were put with no take in between, and the
\* first take returned frame 2.
C15_Witness ==
    /\ Evaluated
    /\ loop.frame = 2
    /\ Len(prediction_history) = 1
    /\ processed_frame_queue = <<>>

\* C16: the producers never block and the channels hold at most one item:
\* the capture loop's append is enabled whenever the camera has a frame to
\* deliver, the processing loop's append is enabled whenever the loop is at
\* line 344, whether or not the held item was read, and each of
\* raw_frame_queue and processed_frame_queue holds at most one item.
C16_ProducersNeverBlock ==
    /\ Len(raw_frame_queue) <= 1
    /\ Len(processed_frame_queue) <= 1
    /\ (captured < StabFrames) => ENABLED Capture(StabFrames)
    /\ (loop.pc = "push") => ENABLED LoopPush

\* C16 witness: both producers have put into a channel that still held an
\* unread item: two frames were captured since the last take, and the
\* processing loop has pushed its second rendered frame.
C16_Witness ==
    /\ loop.pc = "check"
    /\ Len(prediction_history) = 2
    /\ Len(processed_frame_queue) = 1
    /\ raw_frame_queue = <<captured>>
    /\ captured >= processed_frame_queue[1].frame + 2

(***************************************************************************)
(* pi_client.py, sensor_and_motor_loop: the remote node.  One iteration    *)
(* reads the moisture, posts it to /process, and drives the relay from the *)
(* answer.  The answer is an input of the node: the request may raise      *)
(* (connection error, timeout, a body that response.json() cannot parse),  *)
(* or yield a JSON object whose motor_command and duration are read with   *)
(* result.get.                                                             *)
(***************************************************************************)
MaxPiPolls == 3
PiCommands == {"RUN", "STOP", "none"}
PiDurations == {0, 3, 5}

PiFrame == <<actuator, stabilizer, command, sensors, latest_plant,
             force_spray_now, activity_log, channels, threads, history,
             readers>>

\* lines 115-117: read_soil_moisture() and the payload
PiReadMoisture ==
    /\ pi.pc = "read"
    /\ pi.posts < MaxPiPolls
    /\ pi' = [pi EXCEPT !.pc = "post", !.posts = @ + 1]
    /\ UNCHANGED <<PiFrame, motor>>

\* lines 120-121 raising: requests.post or response.json() fails; the
\* locals command and run_for keep the values of the previous iteration
PiPostFails ==
    /\ pi.pc = "post"
    /\ pi' = [pi EXCEPT !.pc = "except", !.outcome = "failed"]
    /\ UNCHANGED <<PiFrame, motor>>

\* lines 120-124: the request succeeds; command = result.get("motor_command")
\* ("none" when absent), run_for = result.get("duration", 0)
PiPostAnswers ==
    /\ pi.pc = "post"
    /\ \E c \in PiCommands, d \in PiDurations :
          pi' = [pi EXCEPT !.pc = "decide", !.outcome = "answered",
                           !.command = c, !.run_for = d]
    /\ UNCHANGED <<PiFrame, motor>>

\* line 128 without its test of run_for
PiDecide_AnyRun ==
    /\ pi.pc = "decide"
    /\ IF pi.command = "RUN"
       THEN /\ pi' = [pi EXCEPT !.pc = "on"]
            /\ UNCHANGED motor
       ELSE /\ motor' = FALSE
            /\ pi' = [pi EXCEPT !.pc = "wait"]
    /\ UNCHANGED PiFrame

\* line 128: if command == "RUN" and run_for > 0; lines 134-136: else
\* motor.off()
PiDecide ==
    /\ pi.pc = "decide"
    /\ IF pi.command = "RUN" /\ pi.run_for > 0
       THEN /\ pi' = [pi EXCEPT !.pc = "on"]
            /\ UNCHANGED motor
       ELSE /\ motor' = FALSE
            /\ pi' = [pi EXCEPT !.pc = "wait"]
    /\ UNCHANGED PiFrame

\* line 129: motor.on(); line 131 then sleeps for run_for seconds
PiMotorOn ==
    /\ pi.pc = "on"
    /\ motor' = TRUE
    /\ pi' = [pi EXCEPT !.pc = "sleep", !.elapsed = 0]
    /\ UNCHANGED PiFrame

\* line 131: one second of time.sleep(run_for) passes
PiSleep ==
    /\ pi.pc = "sleep"
    /\ pi.elapsed < pi.run_for
    /\ pi' = [pi EXCEPT !.elapsed = @ + 1]
    /\ UNCHANGED <<PiFrame, motor>>

\* line 129 raising: the relay driver cannot be driven (gpiozero raises);
\* the relay stays as it was and control passes to the except clause
PiMotorOnFails ==
    /\ pi.pc = "on"
    /\ pi' = [pi EXCEPT !.pc = "except", !.outcome = "drive_failed"]
    /\ UNCHANGED <<PiFrame, motor>>

\* the loop without line 132: the relay is left as it was after the sleep
PiMotorOff_LeftOn ==
    /\ pi.pc = "sleep"
    /\ pi.elapsed = pi.run_for
    /\ pi' = [pi EXCEPT !.pc = "wait"]
    /\ UNCHANGED <<PiFrame, motor>>

\* lines 131-132: time.sleep(run_for) returns; motor.off()
PiMotorOff ==
    /\ pi.pc = "sleep"
    /\ pi.elapsed = pi.run_for
    /\ motor' = FALSE
    /\ pi' = [pi EXCEPT !.pc = "wait"]
    /\ UNCHANGED PiFrame

\* lines 138-140: except Exception: log the error, motor.off()
PiExcept ==
    /\ pi.pc = "except"
    /\ motor' = FALSE
    /\ pi' = [pi EXCEPT !.pc = "wait"]
    /\ UNCHANGED PiFrame

\* line 142: time.sleep(1), then the next iteration
PiWait ==
    /\ pi.pc = "wait"
    /\ pi' = [pi EXCEPT !.pc = "read"]
    /\ UNCHANGED <<PiFrame, motor>>

NextPi ==
    \/ PiReadMoisture
    \/ PiPostFails
    \/ PiPostAnswers
    \/ PiDecide
    \/ PiMotorOn
    \/ PiMotorOnFails
    \/ PiSleep
    \/ PiMotorOff
    \/ PiExcept
    \/ PiWait

SpecPi == Init /\ [][NextPi]_vars

\* the latest poll of the remote node returned RUN with a positive duration
PiToldToRun ==
    /\ pi.outcome = "answered"
    /\ pi.command = "RUN"
    /\ pi.run_for > 0

\* C17: when a poll of the remote node fails, the relay is off at the end
\* of that iteration, and the relay is on only while the latest poll is one
\* that returned RUN with a positive duration.
C17_RemoteNodeFailsSafe ==
    /\ (pi.pc = "wait" /\ pi.outcome = "failed") => ~motor
    /\ motor => PiToldToRun

\* a poll failed right after a poll that ran the pump, and the relay is off
C17_Witness ==
    /\ pi.pc = "wait"
    /\ pi.outcome = "failed"
    /\ pi.command = "RUN"
    /\ pi.run_for > 0
    /\ ~motor

\* the attempt to drive the physical actuator for a RUN answer has failed
\* and the failure has been handled (pi_client.py:138-140)
DriveFailed == pi.outcome = "drive_failed" /\ pi.pc = "wait"

\* C18: once driving the physical actuator has failed, the activity log
\* holds an error-class event and the controller is Idle (motor_running
\* False).
C18_ActuatorFailureLoggedAndRolledBack ==
    DriveFailed =>
        /\ \E i \in 1..Len(activity_log) : activity_log[i].type = "error"
        /\ ~motor_running

\* C19: from the step in which a session sets motor_running = True to the
\* step in which that session's own wait ends, motor_running is True: no
\* step of another thread sets it to False while the session lasts.
C19_NoEarlyDeactivation == \A s \in Sprayers : InSession(s) => motor_running

\* The step in which handler p consumes the force flag (line 386)
ConsumesForce(p) == poller[p].pc = "force_reset" /\ poller'[p].pc = "force_log"

\* C20: no /force_spray request is lost: the request raises the flag, the
\* flag stays raised until a poll that took the force branch consumes it,
\* and every poll that took the force branch answers RUN with duration 3;
\* so a node that keeps polling receives that answer after every request.
C20_NoLostTrigger ==
    [][ /\ (force.pc = "idle" /\ force'.pc = "log") => force_spray_now'
        /\ (force_spray_now /\ ~force_spray_now')
              => \E p \in Pollers : poller[p].branch = "force" /\ ConsumesForce(p)
        /\ \A p \in Pollers :
              (Returns(p) /\ poller[p].branch = "force")
              => /\ poller'[p].motor_command = "RUN"
                 /\ poller'[p].duration = FORCE_DURATION ]_vars

(***************************************************************************)
(* The activity log at capacity.  After a long run the log holds the last  *)
(* entries of the past events; here the past is a series of force sprays   *)
(* ("Force spray requested", "Manual override") that leaves at most        *)
(* LogRoom free places.  The scenario is the gate scenario plus the        *)
(* /force_spray handler, so that log_event is called by run_motor_spray    *)
(* (lines 198, 208) and by trigger_force_spray (line 447).                 *)
(***************************************************************************)
LogRoom == 3

LogPast(n) ==
    [i \in 1..n |-> IF i % 2 = 1 THEN LogEntry(ForceRequestedMessage, "warning")
                    ELSE LogEntry(ForceSprayMessage, "warning")]

InitLog == \E n \in (LOG_SIZE - LogRoom)..(LOG_SIZE - 1) : InitGateLog(LogPast(n))

NextLog ==
    \/ LoopWriteConfidence
    \/ LoopReadMoisture
    \/ LoopReadHumidity
    \/ LoopCompareHumidity
    \/ LoopReadTemperature
    \/ LoopCompareTemperature
    \/ LoopTrigger
    \/ LoopPush
    \/ \E s \in Sprayers : SprayStep(s)
    \/ ForceStep

SpecLog == InitLog /\ [][NextLog]_vars

\* All of sequence q but its last element
Front(q) == SubSeq(q, 1, Len(q) - 1)

\* C21: the activity log never holds more than 50 entries; a step that
\* appends to it keeps the earlier entries unchanged and in order, and when
\* the log is full it drops exactly the oldest entry.
C21_LogBoundedOldestDropped ==
    [][ /\ Len(activity_log') <= 50
        /\ (activity_log' # activity_log)
             => /\ activity_log' # <<>>
                /\ Front(activity_log') =
                     IF Len(activity_log) < 50 THEN activity_log
                     ELSE Tail(activity_log) ]_vars

\* C21 witness: the log is full and no longer starts with the entry that
\* was its oldest: an append has dropped "Force spray requested", the
\* oldest entry of every initial log, and "Motor OFF" is the newest entry.
C21_Witness ==
    /\ Len(activity_log) = 50
    /\ activity_log[1] = LogEntry(ForceSprayMessage, "warning")
    /\ activity_log[50].message[1] = "Motor OFF"

(***************************************************************************)
(* get_status, the /status handler, and get_logs, the /logs handler.  The  *)
(* dict of get_status is built from six reads of shared globals, in the    *)
(* order of lines 433-438; get_logs copies the log with list(activity_log).*)
(***************************************************************************)
MaxQueries == 1

ReaderFrame == <<actuator, stabilizer, command, sensors, latest_plant,
                 force_spray_now, activity_log, channels, threads, history,
                 remote>>

\* line 433: latest_plant.get("label", "N/A")
StatusReadLabel ==
    /\ status.pc = "idle"
    /\ status.count < MaxQueries
    /\ status' = [StatusIdle EXCEPT !.pc = "confidence",
                                    !.plant = latest_plant.label,
                                    !.count = status.count + 1]
    /\ UNCHANGED <<ReaderFrame, logs, stream>>

\* line 434: latest_plant.get("confidence", 0.0)
StatusReadConfidence ==
    /\ status.pc = "confidence"
    /\ status' = [status EXCEPT !.pc = "moisture", !.num = latest_plant.num,
                                !.den = latest_plant.den]
    /\ UNCHANGED <<ReaderFrame, logs, stream>>

\* line 435: latest_moisture
StatusReadMoisture ==
    /\ status.pc = "moisture"
    /\ status' = [status EXCEPT !.pc = "temperature", !.moisture = latest_moisture]
    /\ UNCHANGED <<ReaderFrame, logs, stream>>

\* line 436: latest_temperature
StatusReadTemperature ==
    /\ status.pc = "temperature"
    /\ status' = [status EXCEPT !.pc = "humidity",
                                !.temperature = latest_temperature]
    /\ UNCHANGED <<ReaderFrame, logs, stream>>

\* line 437: latest_humidity
StatusReadHumidity ==
    /\ status.pc = "humidity"
    /\ status' = [status EXCEPT !.pc = "motor", !.humidity = latest_humidity]
    /\ UNCHANGED <<ReaderFrame, logs, stream>>

\* line 438: "ON" if motor_running else "OFF"; the response is returned
StatusReadMotor ==
    /\ status.pc = "motor"
    /\ status' = [status EXCEPT !.pc = "idle",
                                !.motor = IF motor_running THEN "ON" ELSE "OFF"]
    /\ UNCHANGED <<ReaderFrame, logs, stream>>

StatusStep ==
    \/ StatusReadLabel
    \/ StatusReadConfidence
    \/ StatusReadMoisture
    \/ StatusReadTemperature
    \/ StatusReadHumidity
    \/ StatusReadMotor

\* A /logs handler that empties the log it returns
LogsRespond_Drains ==
    /\ logs.count < MaxQueries
    /\ logs' = [response |-> activity_log, count |-> logs.count + 1]
    /\ activity_log' = <<>>
    /\ UNCHANGED <<actuator, stabilizer, command, sensors, latest_plant,
                   force_spray_now, channels, threads, history, remote, status,
                   stream>>

\* line 426: jsonify(list(activity_log))
LogsRespond ==
    /\ logs.count < MaxQueries
    /\ logs' = [response |-> activity_log, count |-> logs.count + 1]
    /\ UNCHANGED <<ReaderFrame, status, stream>>

\* The /status handler has returned a response
StatusResponded == status.pc = "idle" /\ status.count > 0

\* SpecQuery: the dashboard's queries during one gate evaluation of the
\* processing loop (from line 328, every input of SpecGate) and the spray
\* threads it starts.
NextQuery ==
    \/ LoopWriteConfidence
    \/ LoopReadMoisture
    \/ LoopReadHumidity
    \/ LoopCompareHumidity
    \/ LoopReadTemperature
    \/ LoopCompareTemperature
    \/ LoopTrigger
    \/ LoopPush
    \/ \E s \in Sprayers : SprayStep(s)
    \/ StatusStep
    \/ LogsRespond

SpecQuery == InitGate /\ [][NextQuery]_vars

\* C22: the status and log queries are read-only: a step of the /status or
\* /logs handler leaves the stable reading, moisture, temperature,
\* humidity, the force flag, motor_running, the last command and duration,
\* the activity log and both channels unchanged.
C22_QueriesReadOnly ==
    [][ (status' # status \/ logs' # logs)
        => UNCHANGED <<latest_plant, latest_moisture, latest_temperature,
                       latest_humidity, force_spray_now, motor_running,
                       current_motor_command, command_duration, activity_log,
                       raw_frame_queue, processed_frame_queue>> ]_vars

\* C22 witness: /status has answered with the motor ON and /logs has
\* returned a log that holds a "Motor ON" entry, which is still in the log.
C22_Witness ==
    /\ StatusResponded
    /\ status.motor = "ON"
    /\ logs.count > 0
    /\ \E i \in 1..Len(logs.response) :
         /\ logs.response[i].message[1] = "Motor ON"
         /\ i <= Len(activity_log)
         /\ activity_log[i] = logs.response[i]

\* The gate of handler p has decided RUN (all_conditions_ok was True)
DecidedRun(p) == poller[p].pc \in {"run_command", "run_duration", "run_log"}

\* C23: the decision of a poll is the gate on one state of the stable
\* label, the moisture of the poll's own request, humidity and temperature:
\* a poll decides RUN only if the moisture of its own request is below the
\* limit and the values it decided on satisfy the gate together.
C23_SingleConsistentSnapshot ==
    \A p \in Pollers :
      DecidedRun(p)
      => all_conditions_ok(poller[p].plant_label, poller[p].request,
                           poller[p].humidity, poller[p].temperature)

\* C24: every poll response is a decision one poll computed: the returned
\* pair is (RUN, d) with d in {2, 3, 5} or (STOP, 0), never (RUN, 0) or
\* (STOP, d > 0).
C24_ResponseIsOneDecision ==
    \A p \in Pollers :
      (Responded(p) /\ poller[p].motor_command \in {"RUN", "STOP"})
      => \/ poller[p].motor_command = "RUN" /\ poller[p].duration \in {2, 3, 5}
         \/ poller[p].motor_command = "STOP" /\ poller[p].duration = 0

\* C25: no gate evaluation fails with an exception because a sensor value
\* is absent: the processing loop never ends in a TypeError and no poll is
\* answered with an error instead of a RUN/STOP response.
C25_NoExceptionOnSensorAbsence ==
    /\ loop.pc # "crashed"
    /\ \A p \in Pollers : poller[p].motor_command # "error"

\* The number of entries of history h whose label is of severity w
SeverityCount(h, w) ==
    Cardinality({i \in 1..Len(h) : h[i].label # NoPlantDetected /\ h[i].label[1] = w})

\* The severities that occur most often among the non-sentinel entries of h
MajoritySeverities(h) ==
    {w \in severity_classes :
        /\ SeverityCount(h, w) > 0
        /\ \A v \in severity_classes : SeverityCount(h, w) >= SeverityCount(h, v)}

\* C26: when the smoothed confidence is at or above the threshold and the
\* history holds a non-sentinel entry, the stable output's severity is a
\* severity that occurs most often among the non-sentinel entries, the
\* subject is marked visible and the no-subject run counter is 0.
C26_MajoritySeverityWhenConfident ==
    (Evaluated /\ ~BelowThreshold(prediction_history))
    => /\ plant_currently_visible
       /\ frames_without_plant = 0
       /\ MajoritySeverities(prediction_history) # {}
            => loop.stable_label[1] \in MajoritySeverities(prediction_history)

(***************************************************************************)
(* The smoothing of get_stable_prediction over a full history window.      *)
(* The numerator of the moving average over n entries has up to n + 1      *)
(* decimal digits, more than a machine integer holds once the window is    *)
(* full, so here it is carried in BigLimbs limbs of six decimal digits,    *)
(* least significant first.                                                *)
(***************************************************************************)
BigLimbs == 5
BigBase == 1000 * 1000

\* Limbs x (each possibly above BigBase) from limb i on, carry added
RECURSIVE BigNormFrom(_, _, _)
BigNormFrom(x, i, carry) ==
    IF i > BigLimbs THEN <<>>
    ELSE <<(x[i] + carry) % BigBase>>
         \o BigNormFrom(x, i + 1, (x[i] + carry) \div BigBase)

\* The small natural n, n times x for a small n, and x + y
Big(n) == BigNormFrom([i \in 1..BigLimbs |-> IF i = 1 THEN n ELSE 0], 1, 0)
BigScale(x, n) == BigNormFrom([i \in 1..BigLimbs |-> x[i] * n], 1, 0)
BigAdd(x, y) == BigNormFrom([i \in 1..BigLimbs |-> x[i] + y[i]], 1, 0)

RECURSIVE BigPow(_, _)
BigPow(b, k) == IF k = 0 THEN Big(1) ELSE BigScale(BigPow(b, k - 1), b)

\* x < y, compared from limb i down
RECURSIVE BigLessFrom(_, _, _)
BigLessFrom(x, y, i) ==
    IF i = 0 THEN FALSE
    ELSE IF x[i] # y[i] THEN x[i] < y[i]
    ELSE BigLessFrom(x, y, i - 1)

\* line 156 with the two weights exchanged
SmoothNext_WeightsSwapped(s, e) ==
    Append(s, [num |-> BigAdd(BigScale(s[Len(s)].den, (AlphaDen - AlphaNum) * e.conf),
                              BigScale(s[Len(s)].num, AlphaNum)),
               den |-> BigScale(s[Len(s)].den, AlphaDen)])

\* line 156 for entry e of the history, after the values s of smoothed for
\* the entries before it, each a fraction num/den with den a power of
\* AlphaDen: the values of smoothed up to entry e
SmoothNext(s, e) ==
    Append(s, [num |-> BigAdd(BigScale(s[Len(s)].den, AlphaNum * e.conf),
                              BigScale(s[Len(s)].num, AlphaDen - AlphaNum)),
               den |-> BigScale(s[Len(s)].den, AlphaDen)])

\* lines 150-156 on the first n entries of h: the value of smoothed after
\* each iteration of the loop
RECURSIVE BigSmoothed(_, _)
BigSmoothed(h, n) ==
    IF n = 1 THEN <<[num |-> Big(h[1].conf), den |-> Big(1)]>>
    ELSE SmoothNext(BigSmoothed(h, n - 1), h[n])

\* The smoothed confidence get_stable_prediction computes for history h (a
\* numerator over AlphaDen^(Len(h)-1))
Emitted(h) == BigSmoothed(h, Len(h))[Len(h)].num

\* line 165 fails for history h
BigBelowThreshold(h) ==
    BigLessFrom(Emitted(h), BigScale(BigPow(AlphaDen, Len(h) - 1), MIN_CONFIDENCE),
                BigLimbs)

\* The changes of label between neighbours in history h
Changes(h) == Cardinality({i \in 1..(Len(h) - 1) : h[i].label # h[i + 1].label})

\* Outcomes of the classifiers in the smoothing's specification: no plant,
\* and a severity at a confidence above and at one below MIN_CONFIDENCE
SmoothClassifications == {cl \in StabClassifications : cl.confidence \in {0, 20, 90}}

SmoothFrames == 22
MaxChanges == 1

\* lines 306-312 for one frame: prediction_history.append and
\* get_stable_prediction(), whose return value depends on the history alone
\* but for the label No Plant Detected of lines 171-177.  The classifier's
\* outcome changes at most MaxChanges times within a window.
Classify ==
    /\ captured < SmoothFrames
    /\ \E cl \in SmoothClassifications :
         LET h == DequeAppend(prediction_history, HistoryEntry(cl), HISTORY_SIZE)
         IN /\ Changes(h) <= MaxChanges
            /\ prediction_history' = h
            /\ IF ~BigBelowThreshold(h)
               THEN /\ plant_currently_visible' = TRUE
                    /\ frames_without_plant' = 0
               ELSE IF plant_currently_visible /\ frames_without_plant + 1 < HYSTERESIS
               THEN /\ frames_without_plant' = frames_without_plant + 1
                    /\ UNCHANGED plant_currently_visible
               ELSE /\ plant_currently_visible' = FALSE
                    /\ frames_without_plant' = 0
    /\ captured' = captured + 1
    /\ UNCHANGED <<actuator, command, sensors, latest_plant, force_spray_now,
                   activity_log, channels, loop, sprayer, poller, polls, dht,
                   dhts, force, forces, history, remote, readers>>

SpecSmoothing == Init /\ [][Classify]_vars

\* The recurrence step from history h to history g: the value for g is
\* alpha * (confidence of the newest entry) + (1 - alpha) * (value for h)
RecurrenceStep(h, g) ==
    BigScale(Emitted(g), Pow(AlphaDen, Len(h) + 1 - Len(g)))
    = BigAdd(BigScale(BigPow(AlphaDen, Len(h) - 1), AlphaNum * g[Len(g)].conf),
             BigScale(Emitted(h), AlphaDen - AlphaNum))

\* C27 as stated: the smoothed confidence after the k-th classification is
\* s_1 = c_1, s_k = alpha * c_k + (1 - alpha) * s_(k-1), for every k: each
\* emitted value is the recurrence step from the value emitted before it.
C27_SmoothedIsRecurrenceOverAll ==
    [][ (prediction_history' # prediction_history)
        => IF prediction_history = <<>>
           THEN Emitted(prediction_history') = Big(prediction_history'[1].conf)
           ELSE RecurrenceStep(prediction_history, prediction_history') ]_vars

\* C27 amended: the smoothed confidence is the recurrence taken over the
\* history window: while fewer than HISTORY_SIZE classifications have been
\* processed each emitted value is the recurrence step from the one before
\* it, and from then on it is the recurrence started afresh at the oldest
\* of the last HISTORY_SIZE classifications.
C27_SmoothedIsRecurrenceOverWindow ==
    [][ (prediction_history' # prediction_history)
        => /\ Len(prediction_history') <= HISTORY_SIZE
           /\ IF prediction_history = <<>>
              THEN Emitted(prediction_history') = Big(prediction_history'[1].conf)
              ELSE IF Len(prediction_history) < HISTORY_SIZE
              THEN RecurrenceStep(prediction_history, prediction_history')
              ELSE /\ Tail(prediction_history)
                        = SubSeq(prediction_history', 1, HISTORY_SIZE - 1)
                   /\ RecurrenceStep(Tail(prediction_history), prediction_history') ]_vars

\* C27 witness: 21 classifications have been processed, the first at 90 %
\* and the others "no plant"; the window holds the last 20 and the smoothed
\* confidence is 0.
C27_Witness ==
    /\ captured = HISTORY_SIZE + 1
    /\ Len(prediction_history) = HISTORY_SIZE
    /\ \A i \in 1..HISTORY_SIZE : prediction_history[i].conf = 0
    /\ Emitted(prediction_history) = Big(0)
    /\ ~plant_currently_visible

(***************************************************************************)
(* get_stable_prediction as a function of the history and the two          *)
(* hysteresis variables it finds on entry.                                 *)
(***************************************************************************)
CallLen == 3

\* The histories of at most CallLen entries
CallHistories ==
    UNION { [1..n -> {HistoryEntry(cl) : cl \in StabClassifications}]
            : n \in 0..CallLen }

\* The processing loop is at line 312, about to call get_stable_prediction,
\* with any history and any values of the hysteresis variables
InitCall ==
    /\ motor_running = FALSE
    /\ spray_lasts_for = 0
    /\ spray_in_progress = FALSE
    /\ freeze_active = FALSE
    /\ manual_spray_prompt = <<>>
    /\ prediction_history \in CallHistories
    /\ plant_currently_visible \in BOOLEAN
    /\ frames_without_plant \in 0..HYSTERESIS
    /\ current_motor_command = "STOP"
    /\ command_duration = 0
    /\ latest_moisture = 0
    /\ latest_temperature = None
    /\ latest_humidity = None
    /\ latest_plant = [label |-> NoPlantDetected, num |-> 0, den |-> 1]
    /\ force_spray_now = FALSE
    /\ activity_log = <<LogEntry(<<"System started">>, "info")>>
    /\ raw_frame_queue = <<>>
    /\ processed_frame_queue = <<>>
    /\ captured = 0
    /\ loop = [LoopIdle EXCEPT !.pc = "stabilize"]
    /\ sprayer = [s \in Sprayers |-> SprayerIdle]
    /\ poller = [p \in Pollers |-> PollerIdle]
    /\ polls = 0
    /\ dht = [pc |-> "idle", temperature |-> None, humidity |-> None]
    /\ dhts = 0
    /\ force = [pc |-> "idle"]
    /\ forces = 0
    /\ forced = 0
    /\ active_polls = {}
    /\ pi = PiIdle
    /\ motor = FALSE
    /\ status = StatusIdle
    /\ logs = LogsIdle
    /\ stream = [c \in Streams |-> StreamIdle]

\* line 312: stable_label, label_color, stable_conf = get_stable_prediction()
LoopStabilize ==
    /\ loop.pc = "stabilize"
    /\ \E r \in get_stable_prediction(prediction_history, plant_currently_visible,
                                     frames_without_plant) :
         /\ plant_currently_visible' = r.visible
         /\ frames_without_plant' = r.without
         /\ loop' = [loop EXCEPT !.pc = "label",
                                 !.stable_label = r.label,
                                 !.label_color = r.color,
                                 !.stable_num = r.num,
                                 !.stable_den = r.den]
    /\ UNCHANGED <<LoopFrame, prediction_history, latest_plant, channels, sprayer>>

NextCall ==
    \/ LoopStabilize
    \/ LoopWriteLabel
    \/ LoopWriteConfidence

SpecCall == InitCall /\ [][NextCall]_vars

\* Every entry of history h is the no-subject sentinel
AllSentinel(h) == \A i \in 1..Len(h) : h[i].label = NoPlantDetected

\* C28: a call of get_stable_prediction on a history whose entries are all
\* the sentinel returns the label No Plant Detected with confidence 0,
\* whatever plant_currently_visible and frames_without_plant are on entry.
C28_AllSentinelReturnsNoPlant ==
    [][ (loop.pc = "stabilize" /\ loop'.pc = "label" /\ AllSentinel(prediction_history))
        => /\ loop'.stable_label = NoPlantDetected
           /\ loop'.stable_num = 0 ]_vars

\* C28 witness: the call has returned on a non-empty all-sentinel history
\* inside the hysteresis window (the plant was visible on entry and still is)
C28_Witness ==
    /\ loop.pc = "label"
    /\ prediction_history # <<>>
    /\ AllSentinel(prediction_history)
    /\ plant_currently_visible
    /\ frames_without_plant > 1
    /\ loop.label_color = "green"
    /\ loop.stable_label = NoPlantDetected

(***************************************************************************)
(* The server while a spray session runs: the gate scenario with the       *)
(* session of thread 1 in its timed wait.  Until the wait ends the camera  *)
(* delivers frames and at most BusyRequests requests arrive, one at a      *)
(* time; the scenario ends with the end of the session.                    *)
(***************************************************************************)
BusyRequests == 2

\* The classifier's outcome for the frames taken during the session
BusyClassifications == {cl \in Classifications : cl.plant /\ cl.class = "high"}

\* The requests received so far
Requests == polls + dhts + forces + status.count + logs.count

\* No request is being handled
HandlersIdle ==
    /\ poller[1].pc = "idle"
    /\ dht.pc = "idle"
    /\ force.pc = "idle"
    /\ status.pc = "idle"

InitBusy ==
    /\ InitGate
    /\ motor_running
    /\ latest_plant.label = <<"high", FormatConfidence(90)>>
    /\ latest_moisture = 39
    /\ latest_humidity = Some(50)
    /\ latest_temperature = Some(22)

NextBusy ==
    \/ /\ sprayer[1].pc = "sleep"
       /\ \/ Capture(MaxFrames)
          \/ LoopStep(BusyClassifications)
          \/ PollStep(1)
          \/ DhtStep(ClientDhtBodies)
          \/ ForceStep
          \/ StatusStep
          \/ LogsRespond
       /\ Requests' <= BusyRequests
       /\ Requests' > Requests => HandlersIdle
    \/ \E s \in Sprayers : SprayStop(s) \/ SprayLogOff(s)

SpecBusy == InitBusy /\ [][NextBusy]_vars

\* A session is Running: its thread is in the timed wait of line 201
Running == \E s \in Sprayers : sprayer[s].pc = "sleep"

\* The processing loop has a step to take: it has not ended, a frame waits
\* if it is at line 279, and a thread is left to start if it is at line 340
LoopHasWork ==
    /\ loop.pc # "crashed"
    /\ loop.pc = "check" => raw_frame_queue # <<>>
    /\ loop.pc = "motor" => \E s \in Sprayers : sprayer[s].pc = "unborn"

\* C29: while a session is Running, the processing loop can still take a
\* frame and go on with it, and a /process, /dht22, /force_spray or /status
\* request can still be received and each of its steps taken: no step of
\* theirs waits for the session.
C29_SessionDoesNotStall ==
    Running =>
        /\ LoopHasWork => ENABLED LoopStep(BusyClassifications)
        /\ (poller[1].pc # "idle" \/ polls < MaxPolls) => ENABLED PollStep(1)
        /\ (dht.pc # "idle" \/ dhts < MaxDht) => ENABLED DhtStep(ClientDhtBodies)
        /\ (force.pc # "idle" \/ forces < MaxForce) => ENABLED ForceStep
        /\ (status.pc # "idle" \/ status.count < MaxQueries) => ENABLED StatusStep

\* C29 witness: the session the scenario starts with is still in its timed
\* wait, and meanwhile the loop has taken frame 2 and computed its stable
\* reading, a /process request has been answered and a /status request
\* has returned with the motor ON.
C29_Witness ==
    /\ sprayer[1].pc = "sleep"
    /\ loop.frame = 2
    /\ loop.pc = "label"
    /\ Len(prediction_history) = 2
    /\ polls = 1
    /\ Responded(1)
    /\ status.count = 1
    /\ status.pc = "idle"
    /\ status.motor = "ON"

\* The (label, confidence) pairs that the stabilizer can have emitted so far:
\* the initial reading of line 108 and the results of get_stable_prediction
\* on the history as it was after each frame, a confidence being the pair
\* of its numerator and denominator
EmittedPairs ==
    {<<NoPlantDetected, 0, 1>>}
    \cup UNION { {<<r.label, r.num, r.den>>
                  : r \in get_stable_prediction(SubSeq(prediction_history, 1, k), v, w)}
                 : k \in 1..Len(prediction_history), v \in BOOLEAN,
                   w \in 0..HYSTERESIS }

\* The /status handler has read both fields of the stable reading
StatusReadPair == StatusResponded \/ status.pc \notin {"idle", "confidence"}

\* C30: readers see the stable reading atomically: the (label, confidence)
\* pair a /status request reads is a pair the stabilizer emitted together
\* for one frame.
C30_ReadersSeeOnePair ==
    StatusReadPair => <<status.plant, status.num, status.den>> \in EmittedPairs

\* C31: motor_running is written only by run_motor_spray: a step of the
\* capture loop, of the processing loop (the stabilizer included) or of a
\* /process, /dht22, /force_spray, /status or /logs handler leaves it
\* unchanged; a /dht22 step changes only temperature and humidity, and a
\* /force_spray step only the force flag and the log.
C31_OnlyControllerChangesSession ==
    [][ /\ ( \/ captured' # captured \/ loop' # loop \/ poller' # poller
             \/ dht' # dht \/ force' # force \/ status' # status
             \/ logs' # logs )
           => UNCHANGED motor_running
        /\ (motor_running' # motor_running) => sprayer' # sprayer
        /\ (dht' # dht)
           => UNCHANGED <<actuator, stabilizer, command, latest_moisture,
                          latest_plant, force_spray_now, activity_log, channels>>
        /\ (force' # force)
           => UNCHANGED <<actuator, stabilizer, command, sensors, latest_plant,
                          channels>> ]_vars

\* C31 witness: a /force_spray and a /dht22 request have been handled while
\* the session runs, the force flag is set, the new readings are stored and
\* the motor flag is still on.
C31_Witness ==
    /\ sprayer[1].pc = "sleep"
    /\ forces = 1 /\ force.pc = "idle" /\ force_spray_now
    /\ dhts = 1 /\ dht.pc = "idle"
    /\ latest_humidity # Some(50)
    /\ motor_running

\* C32: the relay of the remote node is on only inside the timed wait that
\* follows a response RUN with a positive duration, so it is off whenever a
\* poll request is sent and after a RUN with duration 0 or any other
\* command; it is switched on once per such response, by the step that
\* follows the test of line 128, and switched off when exactly the returned
\* duration has passed.
C32_PiActuatorDiscipline ==
    [][ /\ motor => (pi.pc = "sleep" /\ PiToldToRun /\ pi.elapsed <= pi.run_for)
        /\ pi.pc = "post" => ~motor
        /\ (~motor /\ motor') => (pi.pc = "on" /\ PiToldToRun /\ pi'.elapsed = 0)
        /\ (motor /\ ~motor') => pi.elapsed = pi.run_for
        /\ (motor /\ motor') => (pi'.pc = "sleep" /\ pi'.elapsed = pi.elapsed + 1) ]_vars

\* C32 witness: the second poll is being sent with the relay off, after the
\* first one returned RUN for 3 seconds and the relay was on for 3 seconds
C32_Witness ==
    /\ pi.pc = "post"
    /\ pi.posts = 2
    /\ pi.outcome = "answered"
    /\ pi.command = "RUN"
    /\ pi.run_for = 3
    /\ pi.elapsed = 3
    /\ ~motor

\* C33: after every call of get_stable_prediction the hysteresis counter is
\* at least 0 and below HYSTERESIS, it is 0 when the plant is not visible,
\* and a returned label other than No Plant Detected comes with
\* plant_currently_visible True.
C33_HysteresisCounterInvariant ==
    /\ frames_without_plant >= 0
    /\ frames_without_plant < HYSTERESIS
    /\ ~plant_currently_visible => frames_without_plant = 0
    /\ (Evaluated /\ loop.stable_label # NoPlantDetected) => plant_currently_visible

\* C33 witness: a call has returned the label of a plant for the fourth
\* evaluation in a row below the threshold, the counter at HYSTERESIS - 1
C33_Witness ==
    /\ Evaluated
    /\ plant_currently_visible
    /\ frames_without_plant = HYSTERESIS - 1
    /\ loop.stable_label # NoPlantDetected
    /\ BelowThreshold(prediction_history)

\* C34: with one capture loop and one processing loop, the loop is never at
\* its popleft with the channel empty, and the frame it takes comes later in
\* capture order than every frame it has processed before.
C34_FramesOnceInCaptureOrder ==
    [][ /\ loop.pc = "take" => raw_frame_queue # <<>>
        /\ loop'.pc # "crashed"
        /\ TakesFrame =>
             /\ loop'.frame = Head(raw_frame_queue)
             /\ \A i \in 1..Len(processed_frame_queue) :
                  processed_frame_queue[i].frame < loop'.frame
             /\ \A i \in 1..Len(raw_frame_queue') :
                  raw_frame_queue'[i] > loop'.frame ]_vars

\* C34 witness: the loop has taken frame 3 after it processed frame 1; the
\* capture loop replaced frame 2 in the channel before the loop came back
C34_Witness ==
    /\ loop.pc = "label"
    /\ loop.frame = 3
    /\ processed_frame_queue # <<>>
    /\ processed_frame_queue[1].frame = 1
    /\ Len(prediction_history) = 2

NoMoistureField(p) == poller[p].pc # "idle" /\ poller[p].request = GetMoisture(None)

\* C36: a poll without a moisture field is evaluated with moisture 0.0: it
\* stores 0.0 as the latest moisture, the moisture its gate tests is below
\* the limit, and it decides STOP only if the severity, the humidity or the
\* temperature it read does not satisfy the gate.
C36_MissingMoistureIsZero ==
    [][ \A p \in Pollers :
          /\ (poller[p].pc = "idle" /\ NoMoistureField(p)')
               => latest_moisture' = 0
          /\ NoMoistureField(p) => MoistureOk(poller[p].moisture)
          /\ (NoMoistureField(p) /\ poller[p].pc = "stop_command")
               => ~all_conditions_ok(poller[p].plant_label, 0, poller[p].humidity,
                                     poller[p].temperature) ]_vars

(***************************************************************************)
(* /dht22 reports that arrive between gate evaluations.  dht22_client.py   *)
(* posts what its sensor read; any other sender may post a report with a   *)
(* field missing.                                                          *)
(***************************************************************************)
\* dht22_client.py:24: what read_retry can return, None for a missed read
SensorReadings ==
    [humidity : {None, Some(50)}, temperature : {None, Some(22)}]

\* dht22_client.py:26-36: the payloads the client posts for a reading
ClientPayloads(reading) ==
    IF reading.humidity # None /\ reading.temperature # None
    THEN { [temperature |-> reading.temperature, humidity |-> reading.humidity] }
    ELSE {}

ClientPosts == UNION { ClientPayloads(reading) : reading \in SensorReadings }

\* The bodies a /dht22 request can carry: the client's, and those with one
\* field missing
PartialBodies ==
    ClientPosts
    \cup { [temperature |-> Some(22), humidity |-> None],
           [temperature |-> None, humidity |-> Some(50)] }

\* The gate of the processing loop is being evaluated (lines 334-341)
LoopInGate ==
    loop.pc \in {"moisture", "humidity", "humidity_limit", "temperature",
                 "temperature_limit", "motor"}

\* The stable reading is that of a diseased plant on dry soil, with humidity
\* and temperature of an earlier complete report stored
InitPartial ==
    /\ InitGate
    /\ ~motor_running
    /\ latest_plant.label = <<"high", FormatConfidence(90)>>
    /\ latest_moisture = 39
    /\ latest_humidity = Some(50)
    /\ latest_temperature = Some(22)

\* The steps of a /process handler that finds the force flag clear
PollGateStep(p) ==
    \/ PollReceive(p)
    \/ PollReadLabel(p)
    \/ PollReadForce(p)
    \/ PollReadMoisture(p)
    \/ PollReadHumidity(p)
    \/ PollCompareHumidity(p)
    \/ PollReadTemperature(p)
    \/ PollCompareTemperature(p)
    \/ PollRunCommand(p)
    \/ PollRunDuration(p)
    \/ PollRunLog(p)
    \/ PollStopCommand(p)
    \/ PollStopDuration(p)
    \/ PollRespondCommand(p)
    \/ PollRespondDuration(p)

\* A report is handled only between gate evaluations, and a gate is
\* evaluated only between reports; at most BusyRequests requests arrive,
\* and the camera, the polls and the spray threads run while the loop waits
\* for a frame
NextPartial ==
    \/ /\ Capture(MaxFrames)
       /\ loop.pc = "check"
       /\ poller[1].pc = "idle"
       /\ dht.pc = "idle"
    \/ /\ LoopStep(BusyClassifications)
       /\ LoopInGate => dht.pc = "idle"
    \/ /\ \E s \in Sprayers : SprayStep(s)
       /\ loop.pc = "check"
       /\ poller[1].pc = "idle"
       /\ dht.pc = "idle"
    \/ /\ PollGateStep(1)
       /\ loop.pc = "check"
       /\ dht.pc = "idle"
       /\ Requests' <= BusyRequests
    \/ /\ DhtStep(PartialBodies)
       /\ ~LoopInGate
       /\ poller[1].pc = "idle"
       /\ Requests' <= BusyRequests

SpecPartial == InitPartial /\ [][NextPartial]_vars

\* A reading is absent
Absent == latest_humidity = None \/ latest_temperature = None

GateResponse(plant_label, moisture, humidity, temperature) ==
    IF all_conditions_ok(plant_label, moisture, humidity, temperature)
    THEN <<"RUN", spray_durations[plant_label[1]]>>
    ELSE <<"STOP", 0>>

\* The "Auto spray" entries of the activity log
AutoSprays ==
    {i \in 1..Len(activity_log) : activity_log[i].message[1] = "Auto spray"}

\* C38: the response of a poll that found the force flag clear is a function
\* of the severity it read and of the moisture, humidity and temperature of
\* the state it is handled in (a state that no report changes while the poll
\* is handled), so two such polls in equal states return the same response,
\* however many RUN responses were returned before.
C38_DecisionFromStateOnly ==
    [][ (Returns(1) /\ poller[1].branch = "gate")
        => <<poller'[1].motor_command, poller'[1].duration>>
           = GateResponse(poller[1].plant_label, latest_moisture, latest_humidity,
                          latest_temperature) ]_vars

\* C38 witness: the second poll in a row has returned RUN for 5 seconds, as
\* the first one did, with no report and no change of severity in between
C38_Witness ==
    /\ polls = 2
    /\ dhts = 0
    /\ Responded(1)
    /\ poller[1].branch = "gate"
    /\ poller[1].motor_command = "RUN"
    /\ poller[1].duration = 5
    /\ Cardinality(AutoSprays) = 2

(***************************************************************************)
(* run_motor_spray called with any argument, while another spray thread    *)
(* is asleep at line 201 or none is                                        *)
(***************************************************************************)
\* The arguments of the call: the keys of spray_durations, the class that
\* has no duration and the first word of "No Plant Detected"
CallSeverities == {<<v>> : v \in severity_classes} \cup {<<"No">>}

\* The sessions that may be under way when the call is made
OtherSessions == {None} \cup {Some(v) : v \in DOMAIN spray_durations}

\* The activity log after the Motor ON entry of a session of severity v
LogOfSession(v) ==
    <<LogEntry(<<"System started">>, "info"),
      LogEntry(MotorOnMessage(spray_durations[v], <<v>>), "success")>>

\* Thread 1 is at line 188 with its argument; thread 2 is a session under
\* way or does not exist
InitSprayCall ==
    \E severity_level \in CallSeverities, other \in OtherSessions :
        /\ motor_running = (other # None)
        /\ spray_lasts_for = IF other = None THEN 0 ELSE spray_durations[other[1]]
        /\ spray_in_progress = FALSE
        /\ freeze_active = FALSE
        /\ manual_spray_prompt = <<>>
        /\ prediction_history = <<>>
        /\ plant_currently_visible = FALSE
        /\ frames_without_plant = 0
        /\ current_motor_command = "STOP"
        /\ command_duration = 0
        /\ latest_moisture = 0
        /\ latest_temperature = None
        /\ latest_humidity = None
        /\ latest_plant = [label |-> NoPlantDetected, num |-> 0, den |-> 1]
        /\ force_spray_now = FALSE
        /\ activity_log = IF other = None
                          THEN <<LogEntry(<<"System started">>, "info")>>
                          ELSE LogOfSession(other[1])
        /\ raw_frame_queue = <<>>
        /\ processed_frame_queue = <<>>
        /\ captured = 0
        /\ loop = LoopIdle
        /\ sprayer = [s \in Sprayers |->
                        IF s = 1
                        THEN [SprayerIdle EXCEPT !.pc = "start",
                                                 !.severity_level = severity_level]
                        ELSE IF s = 2 /\ other # None
                        THEN [pc |-> "sleep", severity_level |-> other,
                              duration |-> spray_durations[other[1]]]
                        ELSE SprayerIdle]
        /\ poller = [p \in Pollers |-> PollerIdle]
        /\ polls = 0
        /\ dht = [pc |-> "idle", temperature |-> None, humidity |-> None]
        /\ dhts = 0
        /\ force = [pc |-> "idle"]
        /\ forces = 0
        /\ forced = 0
        /\ active_polls = {}
        /\ pi = PiIdle
        /\ motor = FALSE
        /\ status = StatusIdle
        /\ logs = LogsIdle
        /\ stream = [c \in Streams |-> StreamIdle]

NextSprayCall == \E s \in Sprayers : SprayStep(s)

SpecSprayCall == InitSprayCall /\ [][NextSprayCall]_vars

\* Thread s leaves line 188 in this step
LeavesStart(s) == sprayer[s].pc = "start" /\ sprayer'[s].pc # "start"

\* C39: a call of run_motor_spray with a severity that has no duration ends
\* at once and changes neither motor_running, nor spray_lasts_for, nor the
\* freeze flags, nor the activity log.
C39_UnknownSeverityReturns ==
    [][ \A s \in Sprayers :
          (LeavesStart(s) /\ ~InSprayDurations(sprayer[s].severity_level))
          => /\ sprayer'[s] = SprayerIdle
             /\ UNCHANGED <<actuator, activity_log>> ]_vars

\* C39 witness: the call has returned while the session of the other thread
\* is under way, the motor still on and the log as it was
C39_Witness ==
    /\ sprayer[1] = SprayerIdle
    /\ sprayer[2].pc = "sleep"
    /\ motor_running
    /\ spray_lasts_for = 5
    /\ activity_log = LogOfSession("high")

(***************************************************************************)
(* generate_mjpeg_stream, one generator per consumer of /video_feed        *)
(***************************************************************************)
\* line 354: if processed_frame_queue; an empty deque leads to line 361 and
\* back, which changes nothing
StreamTest(c) ==
    /\ stream[c].pc = "test"
    /\ processed_frame_queue # <<>>
    /\ stream' = [stream EXCEPT ![c].pc = "peek"]
    /\ UNCHANGED <<ReaderFrame, status, logs>>

\* A responder that takes the item it reads out of the deque
StreamPeek_Removes(c) ==
    /\ stream[c].pc = "peek"
    /\ IF processed_frame_queue = <<>>
       THEN /\ stream' = [stream EXCEPT ![c].pc = "raised"]
            /\ UNCHANGED processed_frame_queue
       ELSE /\ stream' = [stream EXCEPT
                            ![c].pc = "yield",
                            ![c].item = Some(Head(processed_frame_queue))]
            /\ processed_frame_queue' = Tail(processed_frame_queue)
    /\ UNCHANGED <<actuator, stabilizer, command, sensors, latest_plant,
                   force_spray_now, activity_log, raw_frame_queue, threads,
                   history, remote, status, logs>>

\* line 355: label, color, conf, frame = processed_frame_queue[-1], which
\* raises IndexError on an empty deque
StreamPeek(c) ==
    /\ stream[c].pc = "peek"
    /\ stream' =
         IF processed_frame_queue = <<>>
         THEN [stream EXCEPT ![c].pc = "raised"]
         ELSE [stream EXCEPT
                 ![c].pc = "yield",
                 ![c].item =
                     Some(processed_frame_queue[Len(processed_frame_queue)])]
    /\ UNCHANGED <<ReaderFrame, status, logs>>

\* lines 356-361: the frame is encoded and yielded, then time.sleep(0.03)
StreamYield(c) ==
    /\ stream[c].pc = "yield"
    /\ stream' = [stream EXCEPT ![c].pc = "test"]
    /\ UNCHANGED <<ReaderFrame, status, logs>>

StreamStep(c) ==
    \/ StreamTest(c)
    \/ StreamPeek(c)
    \/ StreamYield(c)

\* SpecStream: the capture loop, the processing loop before any report or
\* request has arrived, and NumStreams consumers of /video_feed
NextStream ==
    \/ Capture(MaxFrames)
    \/ LoopCheck
    \/ LoopTake(BusyClassifications)
    \/ LoopWriteLabel
    \/ LoopWriteConfidence
    \/ LoopReadMoisture
    \/ LoopReadHumidity
    \/ LoopPush
    \/ \E c \in Streams : StreamStep(c)

SpecStream == Init /\ [][NextStream]_vars

\* The item the processing loop pushes at line 344 in this step
Rendered ==
    [label |-> loop.stable_label, color |-> loop.label_color,
     num |-> loop.stable_num, den |-> loop.stable_den, frame |-> loop.frame]

\* Consumer c executes line 355 in this step
Peeks(c) == stream[c].pc = "peek" /\ stream'[c].pc # "peek"

\* C40: the rendered-frame channel is read without removal: once it holds an
\* item it is never empty again, after each push it holds exactly the frame
\* just rendered, no step of a consumer changes it, and every consumer that
\* reads it gets the item it holds, so consumers reading in the same state
\* get the same item.
C40_StreamPeeksLatest ==
    [][ /\ processed_frame_queue # <<>> => processed_frame_queue' # <<>>
        /\ (loop.pc = "push" /\ loop'.pc # "push")
           => processed_frame_queue' = <<Rendered>>
        /\ stream' # stream => UNCHANGED processed_frame_queue
        /\ \A c \in Streams :
             Peeks(c) => /\ processed_frame_queue # <<>>
                         /\ stream'[c].item = Some(processed_frame_queue[1])
                         /\ stream'[c].pc = "yield" ]_vars

\* C40 witness: two consumers have read the second rendered frame, which is
\* still in the channel
C40_Witness ==
    /\ processed_frame_queue # <<>>
    /\ processed_frame_queue[1].frame = 2
    /\ stream[1].pc = "yield"
    /\ stream[2].pc = "yield"
    /\ stream[1].item = Some(processed_frame_queue[1])
    /\ stream[2].item = stream[1].item

====
